---- MODULE Spec2Model ----
(***************************************************************************)
(* Verification model of the job-application automation engine:            *)
(*   - the autonomous agent loop (src/src/ui/overlay-ui.ts, runFormAgent,  *)
(*     observePage, executeAction, FormAgent.takeStep),                    *)
(*   - the Field Tracker and the fill passes (src/src/autofill/*.ts and    *)
(*     the AI pass of src/unnamed/part_003).                               *)
(* Texts are modelled as tuples of one-character strings so that the       *)
(* case-insensitive substring matching of the code is computed, not        *)
(* assumed.                                                                *)
(***************************************************************************)
EXTENDS Integers, Sequences, FiniteSets, TLC

VARIABLES
    \* ---- agent loop (runFormAgent / takeStep) ----
    pc,                  \* position of the running agent call
    maxSteps,            \* the maxSteps argument of runFormAgent
    steps,               \* let steps
    consecutiveFailures, \* let consecutiveFailures
    recentActions,       \* const recentActions: string[] (keys)
    page,                \* the live document: sequence of button-like elements
    observation,         \* observation.buttons of the latest observePage
    action,              \* the AgentAction decided in the current step
    result,              \* the value returned by runFormAgent
    \* ---- history (ghost) variables of the agent loop ----
    history,             \* every key decided so far, in order
    executed,            \* number of executeAction calls made
    failRun,             \* failed executeAction calls in a row, of any type
    nonClickFailRun,     \* failed executeAction calls since the last success,
                         \* click_button failures not counted
    clicked,             \* id of the element clicked by the last executeAction, 0 if none
    lastOk,              \* what the last executeAction returned: "none", "true", "false"
    \* ---- Field Tracker and fill passes ----
    tracker,             \* trackerInstance: filledFields, failedFields, attemptedSelectors
    now,                 \* the clock read by new Date()
    dom,                 \* the form controls of the live document
    pass,                \* the fill loop in progress
    todo,                \* what the running loop still has to iterate over
    form,                \* form.fields extracted by fillFormWithAI
    counts,              \* let filled / let failed of applyAnswersToForm
    passResult,          \* what the last finished pass returned
    pageClosed,          \* the page was closed under a running pass
    \* ---- history (ghost) variables of the tracker and the passes ----
    lastOp,              \* the tracker method called last
    lastSel,             \* its selector argument
    filledSelectors,     \* selectors given to recordFill since the last reset
    attempts,            \* the fill attempts made by the last step
    filledBy,            \* per control, the passes that wrote a value into it
    processed,           \* items of the running loop handled so far
    passLen,             \* items the running loop started with
    ops,                 \* top-level operations started so far
    \* ---- processApplication, the overlay panel and the dropdown matcher ----
    appHistory,          \* history.jobs of the application history file
    app,                 \* the processApplication call in progress and what it did
    site,                \* the page the browser shows during processApplication
    ui,                  \* the OverlayUI object, its panel and its handlers in flight
    lookup               \* one findMatchingOption call: its arguments and its result

agentVars == <<pc, maxSteps, steps, consecutiveFailures, recentActions, page,
               observation, action, result, history, executed, failRun,
               nonClickFailRun, clicked, lastOk>>

fillVars == <<tracker, now, dom, pass, todo, form, counts, passResult, pageClosed,
              lastOp, lastSel, filledSelectors, attempts, filledBy, processed,
              passLen, ops>>

appVars == <<appHistory, app, site, ui, lookup>>

vars == <<agentVars, fillVars, appVars>>

\* ------------------------------------------------------------------ bounds
MaxStepsBound == 6
MaxPageLen == 2
MaxClock == 4
MaxOps == 2

\* ------------------------------------------------------------------ texts
\* String.prototype.toLowerCase on one character
ToLowerChar(c) ==
    CASE c = "A" -> "a" [] c = "B" -> "b" [] c = "C" -> "c" [] c = "D" -> "d"
      [] c = "E" -> "e" [] c = "F" -> "f" [] c = "G" -> "g" [] c = "H" -> "h"
      [] c = "I" -> "i" [] c = "J" -> "j" [] c = "K" -> "k" [] c = "L" -> "l"
      [] c = "M" -> "m" [] c = "N" -> "n" [] c = "O" -> "o" [] c = "P" -> "p"
      [] c = "Q" -> "q" [] c = "R" -> "r" [] c = "S" -> "s" [] c = "T" -> "t"
      [] c = "U" -> "u" [] c = "V" -> "v" [] c = "W" -> "w" [] c = "X" -> "x"
      [] c = "Y" -> "y" [] c = "Z" -> "z"
      [] OTHER -> c

ToLower(t) == [i \in 1..Len(t) |-> ToLowerChar(t[i])]

\* String.prototype.includes
Includes(hay, needle) ==
    \E i \in 0..(Len(hay) - Len(needle)) :
        \A j \in 1..Len(needle) : hay[i + j] = needle[j]

NoText == << >>

\* ------------------------------------------------------------ FormTracker
\* a Map with no entry
EmptyMap == [k \in {} |-> k]

\* Map.prototype.set
MapSet(m, k, v) == [x \in DOMAIN m \cup {k} |-> IF x = k THEN v ELSE m[x]]

\* new FormTracker(), and the tracker after reset()
NewTracker ==
    [filledFields |-> EmptyMap, failedFields |-> EmptyMap, attemptedSelectors |-> {}]

IsFieldFilled(tr, selector) ==
    selector \in DOMAIN tr.filledFields \/ selector \in tr.attemptedSelectors

MarkAttempted(tr, selector) ==
    [tr EXCEPT !.attemptedSelectors = @ \cup {selector}]

TruncateLimit == 50

TruncateValue(value) ==
    IF Len(value) > TruncateLimit
    THEN SubSeq(value, 1, 47) \o <<".", ".", ".">>
    ELSE value

\* label || selector
LabelOr(label, selector) == IF label = NoText THEN selector ELSE label

FieldFillRecord(selector, label, value, date, module) ==
    [selector |-> selector, label |-> label, value |-> value, timestamp |-> date,
     success |-> TRUE, module |-> module]

\* a recordFill without the early return
RecordFillOverwrite(tr, selector, label, value, module, date) ==
    [tr EXCEPT !.filledFields =
        MapSet(@, selector, FieldFillRecord(selector, LabelOr(label, selector),
                                            TruncateValue(value), date, module))]

RecordFill(tr, selector, label, value, module, date) ==
    IF selector \in DOMAIN tr.filledFields
    THEN tr
    ELSE [tr EXCEPT !.filledFields =
            MapSet(@, selector, FieldFillRecord(selector, LabelOr(label, selector),
                                                TruncateValue(value), date, module))]

RecordFailure(tr, selector, label, reason, module) ==
    [tr EXCEPT !.failedFields =
        MapSet(@, selector, [label |-> LabelOr(label, selector), reason |-> reason])]

GetFilledCount(tr) == Cardinality(DOMAIN tr.filledFields)

GetFailedFields(tr) == DOMAIN tr.failedFields

\* ---- no application is being processed, no panel is open, nothing is looked up ----
AppIdle ==
    /\ appHistory = << >>
    /\ app = [pc |-> "idle"]
    /\ site = [url |-> "none"]
    /\ ui = [panel |-> "none"]
    /\ lookup = [result |-> "none"]

\* ---- values the fill variables have while no fill operation is modelled ----
NoPassResult == [by |-> "none", filled |-> 0, failed |-> 0]
NoCounts == [filled |-> 0, failed |-> 0]

FillIdle ==
    /\ tracker = NewTracker
    /\ now = 0
    /\ dom = << >>
    /\ pass = "idle"
    /\ todo = << >>
    /\ form = << >>
    /\ counts = NoCounts
    /\ passResult = NoPassResult
    /\ pageClosed = FALSE
    /\ lastOp = "none"
    /\ lastSel = NoText
    /\ filledSelectors = {}
    /\ attempts = << >>
    /\ filledBy = << >>
    /\ processed = 0
    /\ passLen = 0
    /\ ops = 0

\* ------------------------------------------------------- the live document
\* A button-like element of the document.  id is the model's handle for the
\* DOM node; the other fields are the attributes the code reads.
Element(id, tag, role, btnClass, text, overlay, visible, disabled, pointer, opaque) ==
    [id |-> id, tag |-> tag, role |-> role, btnClass |-> btnClass, text |-> text,
     overlay |-> overlay, visible |-> visible, disabled |-> disabled,
     pointer |-> pointer, opaque |-> opaque]

TxtNext == <<"N", "e", "x", "t">>
TxtAdd == <<"A", "d", "d">>
TxtSignUp == <<"S", "i", "g", "n", " ", "U", "p">>

\* observePage: the three CSS selectors of buttonSelectors that match
\* elements carrying text ('button', 'a[role="button"]', '[class*="btn"]')
ButtonSelectors == <<"button", "a[role=button]", "[class*=btn]">>

MatchesSelector(el, sel) ==
    CASE sel = "button" -> el.tag = "button"
      [] sel = "a[role=button]" -> el.tag = "a" /\ el.role
      [] sel = "[class*=btn]" -> el.btnClass
      [] OTHER -> FALSE

\* observePage: buttonType from the lower-cased text
ButtonType(el) ==
    LET text == ToLower(el.text) IN
    IF Includes(text, <<"a", "d", "d">>) THEN "add"
    ELSE IF Includes(text, <<"n", "e", "x", "t">>) \/ Includes(text, <<"c", "o", "n", "t", "i", "n", "u", "e">>)
            THEN "next"
    ELSE IF Includes(text, <<"s", "u", "b", "m", "i", "t">>) \/ Includes(text, <<"a", "p", "p", "l", "y">>)
            THEN "submit"
    ELSE "other"

\* observePage: isDisabled / isClickable
IsClickable(el) == el.pointer /\ el.opaque /\ ~el.disabled

\* observePage: the test an element passes to be pushed into result.buttons
Tracked(el) ==
    /\ ~el.overlay
    /\ el.visible
    /\ IsClickable(el)
    /\ (ButtonType(el) # "other" \/ Len(el.text) < 30)

ObservedButton(el) == [id |-> el.id, text |-> el.text, type |-> ButtonType(el)]

RECURSIVE MapObserved(_)
MapObserved(els) ==
    IF els = << >> THEN << >>
    ELSE <<ObservedButton(Head(els))>> \o MapObserved(Tail(els))

TrackedBy(p, sel) ==
    MapObserved(SelectSeq(p, LAMBDA el : MatchesSelector(el, sel) /\ Tracked(el)))

\* observePage(page).buttons
ObservePage(p) ==
    TrackedBy(p, ButtonSelectors[1]) \o TrackedBy(p, ButtonSelectors[2])
        \o TrackedBy(p, ButtonSelectors[3])

ObservedIds(obs) == {obs[i].id : i \in 1..Len(obs)}

\* ------------------------------------------------------------ executeAction
\* the first of a set of positions, 0 if there is none
\* (page.$ returns the first match in document order)
FirstIndex(positions) ==
    IF positions = {} THEN 0
    ELSE CHOOSE i \in positions : \A j \in positions : i <= j

\* Playwright :has-text(): case-insensitive substring of the element's text
HasText(el, target) == Includes(ToLower(el.text), ToLower(target))

\* click_button, first strategy:
\* button:has-text(T), a:has-text(T), [role="button"]:has-text(T)
FirstQueryMatch(el, target) ==
    (el.tag = "button" \/ el.tag = "a" \/ el.role) /\ HasText(el, target)

\* click_button, partial match over 'button, a[role="button"], [role="button"]'
PartialMatch(el, target) ==
    /\ (el.tag = "button" \/ el.role)
    /\ el.text # NoText
    /\ Includes(ToLower(el.text), ToLower(target))

FindButton(p, target) ==
    LET first == FirstIndex({i \in 1..Len(p) : FirstQueryMatch(p[i], target)}) IN
    IF first # 0 THEN first
    ELSE FirstIndex({i \in 1..Len(p) : PartialMatch(p[i], target)})

\* button.click({timeout, force: false}): Playwright clicks only an element
\* that is visible, enabled and receives pointer events; otherwise, or when
\* the environment makes the call time out, it throws.
ClickSucceeds(el, env) == env = "ok" /\ el.visible /\ ~el.disabled /\ el.pointer

Outcome(ok, clickedId, filledSel) ==
    [ok |-> ok, clicked |-> clickedId, filled |-> filledSel]

Failed == Outcome(FALSE, 0, NoText)

\* case 'click_button'
ClickButton(p, a, env) ==
    IF a.target = NoText THEN Failed
    ELSE LET i == FindButton(p, a.target) IN
         IF i = 0 THEN Failed
         ELSE IF p[i].disabled THEN Failed
         ELSE IF ClickSucceeds(p[i], env) THEN Outcome(TRUE, p[i].id, NoText)
         ELSE Failed

\* A fillable control of the document as executeAction addresses it.
AgentField(sel, tag, aria, label) ==
    [sel |-> sel, tag |-> tag, aria |-> aria, label |-> label]

\* case 'fill_field': selector, then aria-label, then label[for]
ResolveFillTarget(fields, target) ==
    LET bySel == FirstIndex({i \in 1..Len(fields) : fields[i].sel = target})
        byAria == FirstIndex({i \in 1..Len(fields) :
                     /\ fields[i].tag \in {"input", "textarea"}
                     /\ fields[i].aria # NoText
                     /\ Includes(ToLower(fields[i].aria), ToLower(target))})
        byLabel == FirstIndex({i \in 1..Len(fields) :
                     /\ fields[i].label # NoText
                     /\ Includes(ToLower(fields[i].label), ToLower(target))})
    IN IF bySel # 0 THEN bySel ELSE IF byAria # 0 THEN byAria ELSE byLabel

FillField(fields, a, env) ==
    IF a.target = NoText \/ a.value = NoText THEN Failed
    ELSE LET i == ResolveFillTarget(fields, a.target) IN
         IF i = 0 THEN Failed
         ELSE IF env = "ok" THEN Outcome(TRUE, 0, fields[i].sel)
         ELSE Failed

\* case 'select_option': page.$(target) only
SelectOption(fields, a, env) ==
    IF a.target = NoText \/ a.value = NoText THEN Failed
    ELSE LET i == FirstIndex({j \in 1..Len(fields) : fields[j].sel = a.target}) IN
         IF i = 0 THEN Failed
         ELSE IF env = "ok" THEN Outcome(TRUE, 0, fields[i].sel)
         ELSE Failed

\* case 'click_element': page.$(target) then click
ClickElement(fields, a, env) ==
    IF a.target = NoText THEN Failed
    ELSE LET i == FirstIndex({j \in 1..Len(fields) : fields[j].sel = a.target}) IN
         IF i = 0 THEN Failed
         ELSE IF env = "ok" THEN Outcome(TRUE, 0, NoText)
         ELSE Failed

\* executeAction(page, action): every exception is caught and becomes false
ExecuteAction(p, fields, a, env) ==
    CASE a.type = "fill_field" -> FillField(fields, a, env)
      [] a.type = "select_option" -> SelectOption(fields, a, env)
      [] a.type = "click_button" -> ClickButton(p, a, env)
      [] a.type = "click_element" -> ClickElement(fields, a, env)
      [] a.type \in {"scroll", "wait"} -> Outcome(env = "ok", 0, NoText)
      [] a.type \in {"done", "need_help"} -> Outcome(TRUE, 0, NoText)
      [] OTHER -> Failed

\* --------------------------------------------------------------- runFormAgent
LoopWindow == 5
LoopThreshold == 3
FailureLimit == 5

Action(type, target, value, reason) ==
    [type |-> type, target |-> target, value |-> value, reason |-> reason]

NoAction == Action("none", NoText, NoText, "")

\* `${action.type}:${action.target || ''}`
ActionKey(a) == <<a.type, a.target>>

\* recentActions.push(actionKey); if (recentActions.length > 5) shift()
PushRecent(recent, key) ==
    LET pushed == Append(recent, key) IN
    IF Len(pushed) > LoopWindow THEN Tail(pushed) ELSE pushed

\* recentActions.filter(a => a === actionKey).length
SameActionCount(recent, key) ==
    Cardinality({i \in 1..Len(recent) : recent[i] = key})

\* a loop guard that needs more than LoopThreshold repetitions
LoopDetectedStrict(recent, key) == SameActionCount(recent, key) > LoopThreshold

\* const sameActionCount = ...; if (sameActionCount >= 3)
LoopDetected(recent, key) == SameActionCount(recent, key) >= LoopThreshold

\* a loop condition that is off by one
WhileCondInclusive(s, m) == s <= m

\* while (steps < maxSteps)
WhileCond(s, m) == s < m

\* a failure counter that takes every failure back, whatever the action type
AfterFailureAllLenient(cf, type) ==
    LET c1 == cf + 1 IN
    IF c1 < FailureLimit THEN (IF c1 - 1 > 0 THEN c1 - 1 ELSE 0) ELSE c1

\* the counter after a failed executeAction: click_button failures below
\* the limit are taken back ("Don't count button failures as harshly")
AfterFailure(cf, type) ==
    LET c1 == cf + 1 IN
    IF type = "click_button" /\ c1 < FailureLimit
    THEN (IF c1 - 1 > 0 THEN c1 - 1 ELSE 0)
    ELSE c1

Result(success, s, reason) == [success |-> success, steps |-> s, reason |-> reason]

NoResult == Result(FALSE, 0, [kind |-> "none"])

ReasonLoop(a) == [kind |-> "Action loop detected", type |-> a.type, target |-> a.target]
ReasonOracle(a) == [kind |-> "oracle", text |-> a.reason]
ReasonFailures(a) == [kind |-> "Too many failed actions", type |-> a.type, target |-> a.target]
ReasonMax == [kind |-> "Max steps reached"]

\* termination checks that report 'done' as a failure
VerdictDoneFails(recent, a, s) ==
    IF LoopDetected(recent, ActionKey(a))
    THEN [returns |-> TRUE, result |-> Result(FALSE, s, ReasonLoop(a))]
    ELSE IF a.type \in {"done", "need_help"}
    THEN [returns |-> TRUE, result |-> Result(FALSE, s, ReasonOracle(a))]
    ELSE [returns |-> FALSE, result |-> NoResult]

\* the result of the checks made on a freshly decided action, before it is
\* executed: loop guard first, then done, then need_help
Verdict(recent, a, s) ==
    IF LoopDetected(recent, ActionKey(a))
    THEN [returns |-> TRUE, result |-> Result(FALSE, s, ReasonLoop(a))]
    ELSE IF a.type = "done"
    THEN [returns |-> TRUE, result |-> Result(TRUE, s, ReasonOracle(a))]
    ELSE IF a.type = "need_help"
    THEN [returns |-> TRUE, result |-> Result(FALSE, s, ReasonOracle(a))]
    ELSE [returns |-> FALSE, result |-> NoResult]

\* ---- what the oracle and the environment can do ----
Env == {"ok", "throw"}
SelF == <<"#", "f">>
SelS == <<"#", "s">>
TxtV == <<"v">>

\* the fields of the document the agent runs on
AgentFields == <<AgentField(SelF, "input", <<"F">>, NoText),
                 AgentField(SelS, "select", NoText, NoText)>>

\* the document the agent loop runs on: one enabled "Next" button
AgentPage == <<Element(1, "button", FALSE, TRUE, TxtNext, FALSE, TRUE, FALSE, TRUE, TRUE)>>

OracleActions ==
    {Action("click_button", TxtNext, NoText, "r1"),
     Action("fill_field", SelF, TxtV, "r1"),
     Action("select_option", SelS, TxtV, "r1"),
     Action("click_element", SelF, NoText, "r1")}
        \cup {Action(t, NoText, NoText, r) : t \in {"done", "need_help"}, r \in {"r1", "r2"}}

\* loop head: either the next iteration starts (steps++ and observePage is
\* awaited) or the loop ends with 'Max steps reached'
EnterLoop(s) ==
    IF WhileCond(s, maxSteps)
    THEN /\ steps' = s + 1
         /\ pc' = "observing"
         /\ result' = result
    ELSE /\ steps' = s
         /\ pc' = "returned"
         /\ result' = Result(FALSE, s, ReasonMax)

AgentInit ==
    /\ pc = "start"
    /\ maxSteps \in 0..MaxStepsBound
    /\ steps = 0
    /\ consecutiveFailures = 0
    /\ recentActions = << >>
    /\ page = AgentPage
    /\ observation = << >>
    /\ action = NoAction
    /\ result = NoResult
    /\ history = << >>
    /\ executed = 0
    /\ failRun = 0
    /\ nonClickFailRun = 0
    /\ clicked = 0
    /\ lastOk = "none"
    /\ FillIdle
    /\ AppIdle

\* runFormAgent is called; after getResumeText the loop is entered
Start ==
    /\ pc = "start"
    /\ EnterLoop(steps)
    /\ UNCHANGED <<fillVars, appVars>>
    /\ UNCHANGED <<maxSteps, consecutiveFailures, recentActions, page, observation,
                   action, history, executed, failRun, nonClickFailRun, clicked,
                   lastOk>>

\* 1. const observation = await observePage(page)
Observe ==
    /\ pc = "observing"
    /\ observation' = ObservePage(page)
    /\ action' = NoAction
    /\ clicked' = 0
    /\ lastOk' = "none"
    /\ pc' = "deciding"
    /\ UNCHANGED <<fillVars, appVars>>
    /\ UNCHANGED <<maxSteps, steps, consecutiveFailures, recentActions, page, result,
                   history, executed, failRun, nonClickFailRun>>

\* page.evaluate of observePage rejects: nothing in runFormAgent catches it
ObserveThrows ==
    /\ pc = "observing"
    /\ pc' = "thrown"
    /\ UNCHANGED <<fillVars, appVars>>
    /\ UNCHANGED <<maxSteps, steps, consecutiveFailures, recentActions, page, observation,
                   action, result, history, executed, failRun, nonClickFailRun, clicked,
                   lastOk>>

\* 2.-5. the oracle answers with action a: loop guard, termination checks
Decide(a) ==
    /\ pc = "deciding"
    /\ action' = a
    /\ recentActions' = PushRecent(recentActions, ActionKey(a))
    /\ history' = Append(history, ActionKey(a))
    /\ LET v == Verdict(recentActions', a, steps) IN
       IF v.returns
       THEN pc' = "returned" /\ result' = v.result
       ELSE pc' = "acting" /\ result' = result
    /\ UNCHANGED <<fillVars, appVars>>
    /\ UNCHANGED <<maxSteps, steps, consecutiveFailures, page, observation, executed,
                   failRun, nonClickFailRun, clicked, lastOk>>

\* decideAction throws (fetch fails or the response is not ok)
OracleFails ==
    /\ pc = "deciding"
    /\ pc' = "thrown"
    /\ UNCHANGED <<fillVars, appVars>>
    /\ UNCHANGED <<maxSteps, steps, consecutiveFailures, recentActions, page, observation,
                   action, result, history, executed, failRun, nonClickFailRun, clicked,
                   lastOk>>

\* 6. executeAction, the failure counter, and the delay before the next
\* iteration (page.waitForTimeout(100), which rejects when delayOk is false)
Act(env, delayOk) ==
    /\ pc = "acting"
    /\ LET out == ExecuteAction(page, AgentFields, action, env)
           cf == IF out.ok THEN 0 ELSE AfterFailure(consecutiveFailures, action.type)
       IN /\ executed' = executed + 1
          /\ clicked' = out.clicked
          /\ lastOk' = IF out.ok THEN "true" ELSE "false"
          /\ consecutiveFailures' = cf
          /\ failRun' = IF out.ok THEN 0 ELSE failRun + 1
          /\ nonClickFailRun' =
                IF out.ok THEN 0
                ELSE IF action.type = "click_button" THEN nonClickFailRun
                ELSE nonClickFailRun + 1
          /\ IF ~out.ok /\ cf >= FailureLimit
             THEN /\ pc' = "returned"
                  /\ result' = Result(FALSE, steps, ReasonFailures(action))
                  /\ steps' = steps
             ELSE IF delayOk
             THEN EnterLoop(steps)
             ELSE pc' = "thrown" /\ steps' = steps /\ result' = result
    /\ UNCHANGED <<fillVars, appVars>>
    /\ UNCHANGED <<maxSteps, recentActions, page, observation, action, history>>

AgentNext ==
    \/ Start
    \/ Observe
    \/ ObserveThrows
    \/ \E a \in OracleActions : Decide(a)
    \/ OracleFails
    \/ \E env \in Env, delayOk \in BOOLEAN : Act(env, delayOk)

SpecAgent == AgentInit /\ [][AgentNext]_vars

\* ------------------------------------------------------- FormAgent.takeStep
\* One observe-decide-act step on an arbitrary document.
\* The kinds of button-like element a document can hold; i is its position.
ElementKinds(i) ==
    {Element(i, "button", FALSE, FALSE, TxtNext, FALSE, TRUE, FALSE, TRUE, TRUE),
     \* the overlay's own <button class="btn btn-signup">Sign Up</button>
     Element(i, "button", FALSE, TRUE, TxtSignUp, TRUE, TRUE, FALSE, TRUE, TRUE),
     \* a plain link <a>Next</a>
     Element(i, "a", FALSE, FALSE, TxtNext, FALSE, TRUE, FALSE, TRUE, TRUE),
     \* <a role="button">Add</a>
     Element(i, "a", TRUE, FALSE, TxtAdd, FALSE, TRUE, FALSE, TRUE, TRUE),
     \* a disabled button
     Element(i, "button", FALSE, FALSE, TxtAdd, FALSE, TRUE, TRUE, TRUE, TRUE),
     \* a button without layout box
     Element(i, "button", FALSE, FALSE, TxtAdd, FALSE, FALSE, FALSE, TRUE, TRUE),
     \* a button with opacity 0
     Element(i, "button", FALSE, FALSE, TxtNext, FALSE, TRUE, FALSE, TRUE, FALSE),
     \* a button with pointer-events: none
     Element(i, "button", FALSE, FALSE, TxtNext, FALSE, TRUE, FALSE, FALSE, TRUE),
     \* a button of type 'other' whose text is 30 characters long
     Element(i, "button", FALSE, FALSE, [k \in 1..30 |-> "x"], FALSE, TRUE, FALSE, TRUE, TRUE)}

Pages ==
    UNION {{p \in [1..n -> UNION {ElementKinds(i) : i \in 1..n}] :
                \A i \in 1..n : p[i].id = i} : n \in 1..MaxPageLen}

ClickTargets == {NoText, <<"n", "e">>, <<"A", "D", "D">>, TxtSignUp, <<"x", "x">>, <<"z">>}

TakeStepInit ==
    /\ pc = "ts_observing"
    /\ page \in Pages
    /\ maxSteps = 0
    /\ steps = 0
    /\ consecutiveFailures = 0
    /\ recentActions = << >>
    /\ observation = << >>
    /\ action = NoAction
    /\ result = NoResult
    /\ history = << >>
    /\ executed = 0
    /\ failRun = 0
    /\ nonClickFailRun = 0
    /\ clicked = 0
    /\ lastOk = "none"
    /\ FillIdle
    /\ AppIdle

\* const observation = await observePage(this.page)
TakeStepObserve ==
    /\ pc = "ts_observing"
    /\ observation' = ObservePage(page)
    /\ pc' = "ts_deciding"
    /\ UNCHANGED <<fillVars, appVars>>
    /\ UNCHANGED <<maxSteps, steps, consecutiveFailures, recentActions, page, action,
                   result, history, executed, failRun, nonClickFailRun, clicked, lastOk>>

\* const action = await decideAction(...)
TakeStepDecide(a) ==
    /\ pc = "ts_deciding"
    /\ action' = a
    /\ pc' = "ts_acting"
    /\ UNCHANGED <<fillVars, appVars>>
    /\ UNCHANGED <<maxSteps, steps, consecutiveFailures, recentActions, page, observation,
                   result, history, executed, failRun, nonClickFailRun, clicked, lastOk>>

\* await executeAction(this.page, action); return action
TakeStepAct(env) ==
    /\ pc = "ts_acting"
    /\ LET out == ExecuteAction(page, AgentFields, action, env) IN
       /\ clicked' = out.clicked
       /\ lastOk' = IF out.ok THEN "true" ELSE "false"
    /\ executed' = executed + 1
    /\ pc' = "ts_returned"
    /\ UNCHANGED <<fillVars, appVars>>
    /\ UNCHANGED <<maxSteps, steps, consecutiveFailures, recentActions, page, observation,
                   action, result, history, failRun, nonClickFailRun>>

TakeStepNext ==
    \/ TakeStepObserve
    \/ \E t \in ClickTargets : TakeStepDecide(Action("click_button", t, NoText, "r1"))
    \/ \E env \in Env : TakeStepAct(env)

SpecTakeStep == TakeStepInit /\ [][TakeStepNext]_vars

\* ---------------------------------------------------------------------------
\* The Field Tracker exercised through its own methods (getFormTracker() is
\* exported): any caller, any argument.
\* ---------------------------------------------------------------------------
SelEmail == <<"#", "e", "m", "a", "i", "l">>
SelSchool == <<"#", "s", "c", "h", "o", "o", "l">>
TxtEmail == <<"E", "m", "a", "i", "l">>
ValEmail == <<"a", "@", "b", ".", "c">>
ValOther == <<"x", "@", "y", ".", "z">>

TrackerSelectors == {SelEmail, SelSchool}

\* no agent call is in progress
AgentIdle ==
    /\ pc = "idle"
    /\ maxSteps = 0
    /\ steps = 0
    /\ consecutiveFailures = 0
    /\ recentActions = << >>
    /\ page = << >>
    /\ observation = << >>
    /\ action = NoAction
    /\ result = NoResult
    /\ history = << >>
    /\ executed = 0
    /\ failRun = 0
    /\ nonClickFailRun = 0
    /\ clicked = 0
    /\ lastOk = "none"

TrackerInit == AgentIdle /\ FillIdle /\ AppIdle

\* tracker.recordFill(selector, label, value, module)
CallRecordFill(selector, label, value, module) ==
    /\ now < MaxClock
    /\ tracker' = RecordFill(tracker, selector, label, value, module, now)
    /\ now' = now + 1
    /\ lastOp' = "recordFill"
    /\ lastSel' = selector
    /\ filledSelectors' = filledSelectors \cup {selector}
    /\ UNCHANGED <<agentVars, appVars>>
    /\ UNCHANGED <<dom, pass, todo, form, counts, passResult, pageClosed, attempts,
                   filledBy, processed, passLen, ops>>

\* tracker.recordFailure(selector, label, reason, module)
CallRecordFailure(selector, label, reason, module) ==
    /\ tracker' = RecordFailure(tracker, selector, label, reason, module)
    /\ lastOp' = "recordFailure"
    /\ lastSel' = selector
    /\ UNCHANGED <<agentVars, appVars>>
    /\ UNCHANGED <<now, dom, pass, todo, form, counts, passResult, pageClosed,
                   filledSelectors, attempts, filledBy, processed, passLen, ops>>

\* tracker.markAttempted(selector)
CallMarkAttempted(selector) ==
    /\ tracker' = MarkAttempted(tracker, selector)
    /\ lastOp' = "markAttempted"
    /\ lastSel' = selector
    /\ UNCHANGED <<agentVars, appVars>>
    /\ UNCHANGED <<now, dom, pass, todo, form, counts, passResult, pageClosed,
                   filledSelectors, attempts, filledBy, processed, passLen, ops>>

\* resetFormTracker()
CallReset ==
    /\ tracker' = NewTracker
    /\ lastOp' = "reset"
    /\ lastSel' = NoText
    /\ filledSelectors' = {}
    /\ UNCHANGED <<agentVars, appVars>>
    /\ UNCHANGED <<now, dom, pass, todo, form, counts, passResult, pageClosed,
                   attempts, filledBy, processed, passLen, ops>>

TrackerNext ==
    \/ \E s \in TrackerSelectors, l \in {NoText, TxtEmail},
            v \in {ValEmail, ([i \in 1..(TruncateLimit + 1) |-> "x"])},
          m \in {"BasicFields", "AI"} : CallRecordFill(s, l, v, m)
    \/ \E s \in TrackerSelectors : CallRecordFailure(s, NoText, "Could not fill", "AI")
    \/ \E s \in TrackerSelectors : CallMarkAttempted(s)
    \/ CallReset

SpecTracker == TrackerInit /\ [][TrackerNext]_vars

\* ---------------------------------------------------------------------------
\* The fill passes over one form: autofillForm (basic fields, education
\* dropdowns, compliance dropdowns), fillFormWithAI (applyAnswersToForm) and
\* the agent's fill_field / select_option.
\* ---------------------------------------------------------------------------
\* A form control of the document: the attributes the passes read.
Control(id, name, tag, type, label) ==
    [id |-> id, name |-> name, tag |-> tag, type |-> type, label |-> label]


\* the controls of the form, in document order
Controls ==
    <<Control(<<"e", "m", "a", "i", "l">>, NoText, "input", "email", TxtEmail),
      Control(<<"l", "o", "c", "a", "t", "i", "o", "n">>, NoText, "select",
              "", <<"L", "o", "c", "a", "t", "i", "o", "n">>),
      Control(<<"s", "c", "h", "o", "o", "l">>, NoText, "select",
              "", <<"S", "c", "h", "o", "o", "l">>),
      Control(<<"m", "a", "j", "o", "r">>, NoText, "select", "", <<"M", "a", "j", "o", "r">>),
      Control(<<"a", "u", "t", "h">>, NoText, "select",
              "", <<"L", "e", "g", "a", "l", "l", "y", " ", "a", "u", "t", "h", "o", "r", "i", "z", "e", "d", " ", "t", "o", " ", "w", "o", "r", "k", "?">>)>>

\* id ? `#${id}` : (name ? `[name="${name}"]` : '')
SelectorOf(c) ==
    IF c.id # NoText THEN <<"#">> \o c.id
    ELSE IF c.name # NoText THEN <<"[", "n", "a", "m", "e", "=", "\"">> \o c.name \o <<"\"", "]">>
    ELSE NoText

SelInputTypeEmail == <<"i", "n", "p", "u", "t", "[", "t", "y", "p", "e", "=", "\"", "e", "m", "a", "i", "l", "\"", "]">>

\* does the control match the CSS selector
MatchesCss(c, sel) ==
    \/ c.id # NoText /\ sel = <<"#">> \o c.id
    \/ c.name # NoText /\ sel = <<"[", "n", "a", "m", "e", "=", "\"">> \o c.name \o <<"\"", "]">>
    \/ sel = SelInputTypeEmail /\ c.tag = "input" /\ c.type = "email"

\* the state of one control in the live document
DomState(present, visible, value) ==
    [present |-> present, visible |-> visible, value |-> value]

\* page.$(selector): index of the first matching control, 0 for null
QuerySelector(d, sel) ==
    FirstIndex({i \in DOMAIN Controls : d[i].present /\ MatchesCss(Controls[i], sel)})

\* one fill attempt as the history sees it
AttemptRec(via, selector, hadRecord, touched, recorded) ==
    [via |-> via, selector |-> selector, hadRecord |-> hadRecord,
     touched |-> touched, recorded |-> recorded]

\* what a fill function leaves behind: its return value, whether it threw,
\* the tracker, the document, the clock, the controls it wrote and its attempts
FillOut(ret, raised, tr, d, clock, wrote, log) ==
    [ret |-> ret, raised |-> raised, tracker |-> tr, dom |-> d, clock |-> clock,
     wrote |-> wrote, log |-> log]


\* a catch block that lets the error escape
CatchFillErrorRethrow(tr, d, clock, selector, label, module) ==
    FillOut(FALSE, TRUE, tr, d, clock, {},
            <<AttemptRec(module, selector, FALSE, TRUE, "none")>>)

\* catch (error) { tracker.recordFailure(selector, label, String(error), module); return false; }
CatchFillError(tr, d, clock, selector, label, module) ==
    FillOut(FALSE, FALSE, RecordFailure(tr, selector, label, "Error: interaction failed", module), d,
            clock, {}, <<AttemptRec(module, selector, FALSE, TRUE, "failure")>>)

FillTextField(tr, d, clock, selector, value, label, module, env) ==
    IF IsFieldFilled(tr, selector)
    THEN FillOut(FALSE, FALSE, tr, d, clock, {},
                 <<AttemptRec(module, selector, selector \in DOMAIN tr.filledFields,
                              FALSE, "none")>>)
    ELSE LET t1 == MarkAttempted(tr, selector)
             i == QuerySelector(d, selector)
         IN IF i = 0
            THEN FillOut(FALSE, FALSE,
                         RecordFailure(t1, selector, label, "Element not found", module), d,
                         clock, {}, <<AttemptRec(module, selector, FALSE, TRUE, "failure")>>)
            ELSE IF ~d[i].visible
            THEN FillOut(FALSE, FALSE,
                         RecordFailure(t1, selector, label, "Element not visible", module), d,
                         clock, {}, <<AttemptRec(module, selector, FALSE, TRUE, "failure")>>)
            ELSE IF d[i].value = value
            THEN FillOut(FALSE, FALSE, t1, d, clock, {},
                         <<AttemptRec(module, selector, FALSE, TRUE, "none")>>)
            ELSE IF env = "throw"
            THEN CatchFillError(t1, d, clock, selector, label, module)
            ELSE FillOut(TRUE, FALSE, RecordFill(t1, selector, label, value, module, clock),
                         [d EXCEPT ![i].value = value], clock + 1, {i},
                         <<AttemptRec(module, selector, FALSE, TRUE, "fill")>>)

FillSelectField(tr, d, clock, selector, value, label, module, env) ==
    IF IsFieldFilled(tr, selector)
    THEN FillOut(FALSE, FALSE, tr, d, clock, {},
                 <<AttemptRec(module, selector, selector \in DOMAIN tr.filledFields,
                              FALSE, "none")>>)
    ELSE LET t1 == MarkAttempted(tr, selector)
             i == QuerySelector(d, selector)
         IN IF i = 0
            THEN FillOut(FALSE, FALSE,
                         RecordFailure(t1, selector, label, "Element not found", module), d,
                         clock, {}, <<AttemptRec(module, selector, FALSE, TRUE, "failure")>>)
            ELSE IF env = "throw"
            THEN CatchFillError(t1, d, clock, selector, label, module)
            ELSE FillOut(TRUE, FALSE, RecordFill(t1, selector, label, value, module, clock),
                         [d EXCEPT ![i].value = value], clock + 1, {i},
                         <<AttemptRec(module, selector, FALSE, TRUE, "fill")>>)

\* ---- the candidate profile and the selector mappings ----

Profile ==
    [personal |-> [first_name |-> NoText, last_name |-> NoText, email |-> ValEmail,
                   phone |-> NoText, location |-> <<"N", "Y", "C">>,
                   work_authorization |-> NoText],
     links |-> [linkedin |-> NoText, github |-> NoText],
     education |-> <<[school |-> <<"M", "I", "T">>, degree |-> <<"B", "S">>, field |-> <<"C", "S">>,
                     graduation |-> <<"2", "0", "2", "4", "-", "0", "5">>]>>,
     compliance |-> [authorized_to_work |-> TRUE, require_sponsorship |-> FALSE]]


\* getProfileValue(profile, fieldName); NoText stands for null
GetProfileValue(profile, fieldName) ==
    IF Includes(fieldName, <<"s", "c", "h", "o", "o", "l">>) /\ Len(profile.education) > 0
    THEN profile.education[1].school
    ELSE IF Includes(fieldName, <<"d", "e", "g", "r", "e", "e">>) /\ Len(profile.education) > 0
    THEN profile.education[1].degree
    ELSE IF Includes(fieldName, <<"f", "i", "e", "l", "d">>) /\ Len(profile.education) > 0
    THEN profile.education[1].field
    ELSE IF Includes(fieldName, <<"g", "r", "a", "d", "u", "a", "t", "i", "o", "n">>)
            /\ Len(profile.education) > 0
    THEN profile.education[1].graduation
    ELSE IF fieldName = <<"f", "i", "r", "s", "t", "_", "n", "a", "m", "e">>
            THEN profile.personal.first_name
    ELSE IF fieldName = <<"l", "a", "s", "t", "_", "n", "a", "m", "e">>
            THEN profile.personal.last_name
    ELSE IF fieldName = <<"e", "m", "a", "i", "l">> THEN profile.personal.email
    ELSE IF fieldName = <<"p", "h", "o", "n", "e">> THEN profile.personal.phone
    ELSE IF fieldName = <<"l", "o", "c", "a", "t", "i", "o", "n">> THEN profile.personal.location
    ELSE IF fieldName = <<"w", "o", "r", "k", "_", "a", "u", "t", "h", "o", "r", "i", "z", "a", "t", "i", "o", "n">>
            THEN profile.personal.work_authorization
    ELSE IF fieldName = <<"l", "i", "n", "k", "e", "d", "i", "n">> THEN profile.links.linkedin
    ELSE IF fieldName = <<"g", "i", "t", "h", "u", "b">> THEN profile.links.github
    ELSE NoText

\* getFieldSelectors(atsType, fieldName) for the ATS of the form
GetFieldSelectors(fieldName) ==
    IF fieldName = <<"e", "m", "a", "i", "l">> THEN <<SelEmail, SelInputTypeEmail>>
    ELSE IF fieldName = <<"l", "o", "c", "a", "t", "i", "o", "n">>
            THEN <<<<"#", "l", "o", "c", "a", "t", "i", "o", "n">>>>
    ELSE << >>

\* const basicFields = [...]
BasicFields ==
    <<[name |-> <<"f", "i", "r", "s", "t", "_", "n", "a", "m", "e">>,
            label |-> <<"F", "i", "r", "s", "t", " ", "N", "a", "m", "e">>],
      [name |-> <<"l", "a", "s", "t", "_", "n", "a", "m", "e">>,
              label |-> <<"L", "a", "s", "t", " ", "N", "a", "m", "e">>],
      [name |-> <<"e", "m", "a", "i", "l">>, label |-> TxtEmail],
      [name |-> <<"p", "h", "o", "n", "e">>, label |-> <<"P", "h", "o", "n", "e">>],
      [name |-> <<"l", "o", "c", "a", "t", "i", "o", "n">>,
              label |-> <<"L", "o", "c", "a", "t", "i", "o", "n">>],
      [name |-> <<"l", "i", "n", "k", "e", "d", "i", "n">>,
              label |-> <<"L", "i", "n", "k", "e", "d", "I", "n">>],
      [name |-> <<"g", "i", "t", "h", "u", "b">>, label |-> <<"G", "i", "t", "H", "u", "b">>]>>

\* for (const selector of selectors) { ... if (success) break; }
RECURSIVE TrySelectors(_, _, _, _, _, _, _, _, _)
TrySelectors(tr, d, clock, selectors, value, label, env, wrote, log) ==
    IF selectors = << >>
    THEN FillOut(FALSE, FALSE, tr, d, clock, wrote, log)
    ELSE LET selector == Head(selectors)
             i == QuerySelector(d, selector)
         IN IF i = 0 \/ ~d[i].visible
            THEN TrySelectors(tr, d, clock, Tail(selectors), value, label, env, wrote, log)
            ELSE LET r == IF Controls[i].tag = "select"
                          THEN FillSelectField(tr, d, clock, selector, value, label,
                                               "BasicFields", env)
                          ELSE FillTextField(tr, d, clock, selector, value, label,
                                             "BasicFields", env)
                 IN IF r.raised \/ r.ret
                    THEN FillOut(r.ret, r.raised, r.tracker, r.dom, r.clock,
                                 wrote \cup r.wrote, log \o r.log)
                    ELSE TrySelectors(r.tracker, r.dom, r.clock, Tail(selectors), value,
                                      label, env, wrote \cup r.wrote, log \o r.log)

\* one iteration of for (const { name, label } of basicFields)
FillBasicField(tr, d, clock, f, env) ==
    LET value == GetProfileValue(Profile, f.name) IN
    IF value = NoText
    THEN FillOut(FALSE, FALSE, tr, d, clock, {}, << >>)
    ELSE TrySelectors(tr, d, clock, GetFieldSelectors(f.name), value, f.label, env,
                      {}, << >>)

\* ---- fillEducationDropdowns ----
HasAny(text, keywords) == \E k \in keywords : Includes(text, k)

\* const degreeMap
DegreeMap ==
    <<[key |-> <<"B", "a", "c", "h", "e", "l", "o", "r", "'", "s">>,
       aliases |-> {<<"b", "a", "c", "h", "e", "l", "o", "r">>, <<"b", "s">>, <<"b", "a">>,
               <<"b", ".", "s", ".">>, <<"b", ".", "a", ".">>,
                       <<"u", "n", "d", "e", "r", "g", "r", "a", "d", "u", "a", "t", "e">>}],
      [key |-> <<"M", "a", "s", "t", "e", "r", "'", "s">>,
       aliases |-> {<<"m", "a", "s", "t", "e", "r">>, <<"m", "s">>, <<"m", "a">>,
               <<"m", ".", "s", ".">>, <<"m", ".", "a", ".">>,
                       <<"g", "r", "a", "d", "u", "a", "t", "e">>}],
      [key |-> <<"P", "h", "D">>,
       aliases |-> {<<"p", "h", "d">>, <<"p", "h", ".", "d", ".">>,
               <<"d", "o", "c", "t", "o", "r", "a", "t", "e">>,
                       <<"d", "o", "c", "t", "o", "r", "a", "l">>}],
      [key |-> <<"A", "s", "s", "o", "c", "i", "a", "t", "e", "'", "s">>,
       aliases |-> {<<"a", "s", "s", "o", "c", "i", "a", "t", "e">>, <<"a", "a">>,
               <<"a", "s">>, <<"a", ".", "a", ".">>, <<"a", ".", "s", ".">>}],
      [key |-> <<"H", "i", "g", "h", " ", "S", "c", "h", "o", "o", "l">>,
       aliases |-> {<<"h", "i", "g", "h", " ", "s", "c", "h", "o", "o", "l">>, <<"h", "s">>,
               <<"d", "i", "p", "l", "o", "m", "a">>}]>>

\* the first degreeMap key the profile's degree matches, else the degree itself
DegreeValue(degree) ==
    LET hits == {k \in DOMAIN DegreeMap :
                    \/ Includes(ToLower(degree), ToLower(DegreeMap[k].key))
                    \/ HasAny(ToLower(degree), DegreeMap[k].aliases)}
    IN IF hits = {} THEN degree ELSE DegreeMap[FirstIndex(hits)].key


\* selector || 'school'
KeyOr(selector, fallback) == IF selector = NoText THEN fallback ELSE selector

\* a dropdown fill that is recorded in the tracker (school, degree branches)
EduTracked(tr, d, clock, i, key, label, value) ==
    FillOut(TRUE, FALSE, RecordFill(tr, key, label, value, "Education", clock),
            [d EXCEPT ![i].value = value], clock + 1, {i},
            <<AttemptRec("Education", key, FALSE, TRUE, "fill")>>)

\* a dropdown fill that only counts filled++ (major, month, year branches)
EduUntracked(tr, d, clock, i, selector, value) ==
    FillOut(TRUE, FALSE, tr, [d EXCEPT ![i].value = value], clock, {i},
            <<AttemptRec("Education", selector, selector \in DOMAIN tr.filledFields,
                         TRUE, "none")>>)

\* one iteration of for (const container of dropdownContainers); fillDropdown
\* and the try* helpers catch every error and return false (env = "throw")
FillEducationContainer(tr, d, clock, i, env) ==
    LET c == Controls[i]
        lowerLabel == ToLower(c.label)
        selector == SelectorOf(c)
        education == Profile.education[1]
        \* const [gradYear, gradMonth] = education.graduation.split('-'), and
        \* monthNames[parseInt(gradMonth)], for the graduation "2024-05"
        gradYear == <<"2", "0", "2", "4">>
        monthName == <<"M", "a", "y">>
        dropdownOk == selector # NoText /\ QuerySelector(d, selector) # 0 /\ env = "ok"
        containerOk == env = "ok"
        isSchool == HasAny(lowerLabel, {<<"s", "c", "h", "o", "o", "l">>,
                <<"u", "n", "i", "v", "e", "r", "s", "i", "t", "y">>,
                        <<"i", "n", "s", "t", "i", "t", "u", "t", "i", "o", "n">>})
        isDegree == HasAny(lowerLabel, {<<"d", "e", "g", "r", "e", "e">>,
                <<"e", "d", "u", "c", "a", "t", "i", "o", "n", " ", "l", "e", "v", "e", "l">>})
        isMajor == HasAny(lowerLabel, {<<"m", "a", "j", "o", "r">>,
                <<"f", "i", "e", "l", "d">>,
                        <<"c", "o", "n", "c", "e", "n", "t", "r", "a", "t", "i", "o", "n">>})
        isMonth == \/ Includes(lowerLabel, <<"m", "o", "n", "t", "h">>)
                   \/ Includes(lowerLabel, <<"e", "n", "d">>) /\ Includes(lowerLabel, <<"d", "a", "t", "e">>)
        isYear == HasAny(lowerLabel, {<<"y", "e", "a", "r">>,
                <<"g", "r", "a", "d", "u", "a", "t", "i", "o", "n">>})
        skip == FillOut(FALSE, FALSE, tr, d, clock, {}, << >>)
    IN IF isSchool /\ IsFieldFilled(tr, KeyOr(selector, <<"s", "c", "h", "o", "o", "l">>))
       THEN FillOut(FALSE, FALSE, tr, d, clock, {},
                    <<AttemptRec("Education", KeyOr(selector, <<"s", "c", "h", "o", "o", "l">>),
                                 KeyOr(selector, <<"s", "c", "h", "o", "o", "l">>)
                                         \in DOMAIN tr.filledFields,
                                 FALSE, "none")>>)
       ELSE IF isSchool /\ (dropdownOk \/ containerOk)
       THEN EduTracked(tr, d, clock, i, KeyOr(selector, <<"s", "c", "h", "o", "o", "l">>),
                       LabelOr(c.label, <<"S", "c", "h", "o", "o", "l">>), education.school)
       ELSE IF isDegree /\ IsFieldFilled(tr, KeyOr(selector, <<"d", "e", "g", "r", "e", "e">>))
       THEN FillOut(FALSE, FALSE, tr, d, clock, {},
                    <<AttemptRec("Education", KeyOr(selector, <<"d", "e", "g", "r", "e", "e">>),
                                 KeyOr(selector, <<"d", "e", "g", "r", "e", "e">>)
                                         \in DOMAIN tr.filledFields,
                                 FALSE, "none")>>)
       ELSE IF isDegree /\ (dropdownOk \/ containerOk)
       THEN EduTracked(tr, d, clock, i, KeyOr(selector, <<"d", "e", "g", "r", "e", "e">>),
                       LabelOr(c.label, <<"D", "e", "g", "r", "e", "e">>),
                               DegreeValue(education.degree))
       ELSE IF isMajor /\ education.field # NoText /\ dropdownOk
       THEN EduUntracked(tr, d, clock, i, selector, education.field)
       ELSE IF isMonth /\ (dropdownOk \/ containerOk)
       THEN EduUntracked(tr, d, clock, i, selector, monthName)
       ELSE IF isYear /\ (dropdownOk \/ (c.tag = "input" /\ containerOk))
       THEN EduUntracked(tr, d, clock, i, selector, gradYear)
       ELSE skip

\* page.$$('[class*="select"], [class*="dropdown"], [role="combobox"], select')
DropdownContainers(d) ==
    SelectSeq([i \in DOMAIN Controls |-> i],
              LAMBDA i : d[i].present /\ Controls[i].tag = "select")

\* ---- fillWorkAuthDropdown ----

\* String.prototype.substring(0, n)
Substring0(text, n) == SubSeq(text, 1, IF Len(text) < n THEN Len(text) ELSE n)

\* page.$$('[class*="field"], ..., div:has(select), div:has([role="combobox"])'):
\* every control of the form sits in one such container
FormFieldContainers(d) ==
    SelectSeq([i \in DOMAIN Controls |-> i], LAMBDA i : d[i].present)

\* one iteration of for (const field of formFields); selectYesNo returns
\* false when its interaction fails (env = "throw")
FillWorkAuthField(tr, d, clock, i, env) ==
    LET c == Controls[i]
        lowerLabel == ToLower(c.label)
        relevant == HasAny(lowerLabel, {<<"a", "u", "t", "h", "o", "r", "i", "z", "e", "d">>,
                <<"s", "p", "o", "n", "s", "o", "r">>, <<"v", "i", "s", "a">>,
                                        <<"l", "e", "g", "a", "l", "l", "y">>,
                                                <<"e", "m", "p", "l", "o", "y", "m", "e", "n", "t", " ", "e", "l", "i", "g", "i", "b", "i", "l", "i", "t", "y">>})
        hasDropdown == c.tag = "select"
        isWorkAuth == /\ HasAny(lowerLabel, {<<"a", "u", "t", "h", "o", "r", "i", "z", "e", "d">>, <<"l", "e", "g", "a", "l", "l", "y">>})
                      /\ Includes(lowerLabel, <<"w", "o", "r", "k">>)
        isSponsor == \/ Includes(lowerLabel, <<"s", "p", "o", "n", "s", "o", "r">>)
                     \/ Includes(lowerLabel, <<"v", "i", "s", "a">>)
                        /\ ~Includes(lowerLabel, <<"a", "u", "t", "h", "o", "r", "i", "z", "e", "d">>)
        authKey == <<"w", "o", "r", "k", "_", "a", "u", "t", "h", "_">>
                \o Substring0(lowerLabel, 20)
        sponsorKey == <<"s", "p", "o", "n", "s", "o", "r", "s", "h", "i", "p", "_">>
                \o Substring0(lowerLabel, 20)
        authValue == IF Profile.compliance.authorized_to_work
                THEN <<"Y", "e", "s">> ELSE <<"N", "o">>
        sponsorValue == IF Profile.compliance.require_sponsorship
                THEN <<"Y", "e", "s">> ELSE <<"N", "o">>
        skip == FillOut(FALSE, FALSE, tr, d, clock, {}, << >>)
        Select(key, label, value) ==
            IF IsFieldFilled(tr, key)
            THEN FillOut(FALSE, FALSE, tr, d, clock, {},
                         <<AttemptRec("Compliance", key, key \in DOMAIN tr.filledFields,
                                      FALSE, "none")>>)
            ELSE IF env = "ok"
            THEN FillOut(TRUE, FALSE, RecordFill(tr, key, label, value, "Compliance", clock),
                         [d EXCEPT ![i].value = value], clock + 1, {i},
                         <<AttemptRec("Compliance", key, FALSE, TRUE, "fill")>>)
            ELSE FillOut(FALSE, FALSE, tr, d, clock, {},
                         <<AttemptRec("Compliance", key, FALSE, TRUE, "none")>>)
    IN IF ~relevant \/ ~hasDropdown THEN skip
       ELSE IF isWorkAuth THEN Select(authKey, <<"W", "o", "r", "k", " ", "A", "u", "t", "h", "o", "r", "i", "z", "a", "t", "i", "o", "n">>, authValue)
       ELSE IF isSponsor THEN Select(sponsorKey, <<"V", "i", "s", "a", " ", "S", "p", "o", "n", "s", "o", "r", "s", "h", "i", "p", " ", "R", "e", "q", "u", "i", "r", "e", "d">>, sponsorValue)
       ELSE skip

\* ---- fillFormWithAI / applyAnswersToForm ----
ExtractedField(selector, label, type) == [selector |-> selector, label |-> label, type |-> type]

\* extractFormFields(): the visible controls of the document with a selector
ExtractFormFields(d) ==
    LET shown == SelectSeq([i \in DOMAIN Controls |-> i],
                           LAMBDA i : /\ d[i].present /\ d[i].visible
                                      /\ SelectorOf(Controls[i]) # NoText)
    IN [k \in DOMAIN shown |->
            ExtractedField(SelectorOf(Controls[shown[k]]), Controls[shown[k]].label,
                           IF Controls[shown[k]].tag = "select" THEN "select"
                           ELSE Controls[shown[k]].type)]

Answer(fieldIndex, answer) == [fieldIndex |-> fieldIndex, answer |-> answer]

\* fillField(page, field, value): every error is caught and becomes false
FillField_AI(d, field, env) ==
    field.type \in {"text", "email", "tel", "number", "date", "textarea", "select"}
        /\ QuerySelector(d, field.selector) # 0 /\ env = "ok"

\* one iteration of for (const answer of aiResponse.answers), up to the delay
\* at its end; cnt is {filled, failed}
ApplyAnswer(tr, d, clock, fields, cnt, answer, env) ==
    LET fieldIndex == answer.fieldIndex - 1
        valid == fieldIndex >= 0 /\ fieldIndex + 1 \in DOMAIN fields
        field == fields[fieldIndex + 1]
        i == QuerySelector(d, field.selector)
    IN IF ~valid
       THEN [out |-> FillOut(FALSE, FALSE, tr, d, clock, {},
                             <<AttemptRec("AI", NoText, FALSE, FALSE, "none")>>),
             counts |-> [cnt EXCEPT !.failed = @ + 1], delay |-> FALSE]
       ELSE IF IsFieldFilled(tr, field.selector)
       THEN [out |-> FillOut(FALSE, FALSE, tr, d, clock, {},
                             <<AttemptRec("AI", field.selector,
                                          field.selector \in DOMAIN tr.filledFields,
                                          FALSE, "none")>>),
             counts |-> cnt, delay |-> FALSE]
       ELSE IF FillField_AI(d, field, env)
       THEN [out |-> FillOut(TRUE, FALSE,
                             RecordFill(tr, field.selector, field.label, answer.answer,
                                        "AI", clock),
                             [d EXCEPT ![i].value = answer.answer], clock + 1, {i},
                             <<AttemptRec("AI", field.selector, FALSE, TRUE, "fill")>>),
             counts |-> [cnt EXCEPT !.filled = @ + 1], delay |-> TRUE]
       ELSE [out |-> FillOut(FALSE, FALSE,
                             RecordFailure(tr, field.selector, field.label,
                                           "Could not fill", "AI"),
                             d, clock, {},
                             <<AttemptRec("AI", field.selector, FALSE, TRUE, "failure")>>),
             counts |-> [cnt EXCEPT !.failed = @ + 1], delay |-> TRUE]

\* executeAction's view of the document for fill_field / select_option
AgentFieldsOf(d) ==
    LET shown == SelectSeq([i \in DOMAIN Controls |-> i], LAMBDA i : d[i].present)
    IN [k \in DOMAIN shown |->
            AgentField(SelectorOf(Controls[shown[k]]), Controls[shown[k]].tag, NoText,
                       Controls[shown[k]].label)]

\* ---- what the environment and the callers can do ----
PassEnv == {"ok", "throw", "closed"}


\* the forms the passes run on: the e-mail input is empty, already holds the
\* profile's value, is hidden, or is missing
Forms ==
    {[i \in DOMAIN Controls |-> IF Controls[i].type = "email"
            THEN e ELSE (DomState(TRUE, TRUE, NoText))] :
        e \in {(DomState(TRUE, TRUE, NoText)), DomState(TRUE, TRUE, ValEmail),
               DomState(TRUE, FALSE, NoText), DomState(FALSE, FALSE, NoText)}}

\* the answers the AI can return: 1-based field indexes, also out of range,
\* also the same field twice
AnswerLists ==
    {<<Answer(0, ValOther)>>,
     <<Answer(1, ValEmail), Answer(5, <<"Y", "e", "s">>)>>,
     <<Answer(4, <<"C", "S">>), Answer(9, ValOther)>>,
     <<Answer(1, ValOther), Answer(1, ValEmail)>>}

AgentFillActions ==
    {Action("fill_field", SelEmail, ValOther, "r1"),
     Action("select_option", SelSchool, <<"M", "I", "T">>, "r1")}

NobodyFilled == [i \in DOMAIN Controls |-> {}]

FillInit ==
    /\ AgentIdle
    /\ AppIdle
    /\ tracker = NewTracker
    /\ now = 0
    /\ dom \in Forms
    /\ pass = "idle"
    /\ todo = << >>
    /\ form = << >>
    /\ counts = NoCounts
    /\ passResult = NoPassResult
    /\ pageClosed = FALSE
    /\ lastOp = "none"
    /\ lastSel = NoText
    /\ filledSelectors = {}
    /\ attempts = << >>
    /\ filledBy = NobodyFilled
    /\ processed = 0
    /\ passLen = 0
    /\ ops = 0

\* the effect of one fill function on the tracker, the document and the history
ApplyOut(out, via) ==
    /\ tracker' = out.tracker
    /\ dom' = out.dom
    /\ now' = out.clock
    /\ attempts' = out.log
    /\ filledBy' = [i \in DOMAIN filledBy |->
                        IF i \in out.wrote THEN filledBy[i] \cup {via} ELSE filledBy[i]]

\* an exception leaves the running pass
Raise(closed) ==
    /\ pass' = "raised"
    /\ pageClosed' = closed
    /\ UNCHANGED <<todo, processed>>

\* the loop goes on with its next item
NextItem ==
    /\ todo' = Tail(todo)
    /\ processed' = processed + 1
    /\ UNCHANGED <<pass, pageClosed>>

\* a loop over items starts
StartLoop(name, items) ==
    /\ pass' = name
    /\ todo' = items
    /\ processed' = 0
    /\ passLen' = Len(items)

\* resetFormTracker() at the start of an application (processApplication)
ResetFormTracker ==
    /\ pass \in {"idle", "raised"}
    /\ ops < MaxOps
    /\ ops' = ops + 1
    /\ tracker' = NewTracker
    /\ pass' = "idle"
    /\ pageClosed' = FALSE
    /\ passResult' = NoPassResult
    /\ attempts' = << >>
    /\ filledBy' = NobodyFilled
    /\ UNCHANGED <<agentVars, appVars>>
    /\ UNCHANGED <<now, dom, todo, form, counts, lastOp, lastSel, filledSelectors,
                   processed, passLen>>

\* autofillForm is called: resetFormTracker(), then the basic-fields loop
AutofillForm ==
    /\ pass = "idle"
    /\ ops < MaxOps
    /\ ops' = ops + 1
    /\ tracker' = NewTracker
    /\ StartLoop("basic", BasicFields)
    /\ passResult' = NoPassResult
    /\ attempts' = << >>
    /\ filledBy' = NobodyFilled
    /\ UNCHANGED <<agentVars, appVars>>
    /\ UNCHANGED <<now, dom, form, counts, pageClosed, lastOp, lastSel, filledSelectors>>

\* STEP 1, one basic field; page.$(selector) of the loop is not guarded, so
\* a closed page (env = "closed") leaves autofillForm as an exception
BasicField(env) ==
    /\ pass = "basic"
    /\ todo # << >>
    /\ LET f == Head(todo)
           usesPage == /\ GetProfileValue(Profile, f.name) # NoText
                       /\ GetFieldSelectors(f.name) # << >>
           out == FillBasicField(tracker, dom, now, f, env)
       IN /\ env = "closed" => usesPage
          /\ IF env = "closed"
             THEN /\ Raise(TRUE)
                  /\ attempts' = << >>
                  /\ UNCHANGED <<tracker, dom, now, filledBy>>
             ELSE /\ ApplyOut(out, "BasicFields")
                  /\ IF out.raised THEN Raise(FALSE) ELSE NextItem
    /\ UNCHANGED <<agentVars, appVars>>
    /\ UNCHANGED <<form, counts, passResult, lastOp, lastSel, filledSelectors, passLen, ops>>

\* STEP 2: fillEducationDropdowns queries the dropdown containers
EducationStart ==
    /\ pass = "basic"
    /\ todo = << >>
    /\ Len(Profile.education) > 0
    /\ StartLoop("education", DropdownContainers(dom))
    /\ attempts' = << >>
    /\ UNCHANGED <<agentVars, appVars>>
    /\ UNCHANGED <<tracker, now, dom, form, counts, passResult, pageClosed, lastOp,
                   lastSel, filledSelectors, filledBy, ops>>

\* one dropdown container; container.getAttribute is not guarded
EducationContainer(env) ==
    /\ pass = "education"
    /\ todo # << >>
    /\ IF env = "closed"
       THEN /\ Raise(TRUE)
            /\ attempts' = << >>
            /\ UNCHANGED <<tracker, dom, now, filledBy>>
       ELSE /\ ApplyOut(FillEducationContainer(tracker, dom, now, Head(todo), env),
                        "Education")
            /\ NextItem
    /\ UNCHANGED <<agentVars, appVars>>
    /\ UNCHANGED <<form, counts, passResult, lastOp, lastSel, filledSelectors, passLen, ops>>

\* STEP 3: fillWorkAuthDropdown queries the form-field containers
ComplianceStart ==
    /\ pass = "education"
    /\ todo = << >>
    /\ StartLoop("compliance", FormFieldContainers(dom))
    /\ attempts' = << >>
    /\ UNCHANGED <<agentVars, appVars>>
    /\ UNCHANGED <<tracker, now, dom, form, counts, passResult, pageClosed, lastOp,
                   lastSel, filledSelectors, filledBy, ops>>

\* one form-field container; field.textContent() is not guarded
ComplianceField(env) ==
    /\ pass = "compliance"
    /\ todo # << >>
    /\ IF env = "closed"
       THEN /\ Raise(TRUE)
            /\ attempts' = << >>
            /\ UNCHANGED <<tracker, dom, now, filledBy>>
       ELSE /\ ApplyOut(FillWorkAuthField(tracker, dom, now, Head(todo), env),
                        "Compliance")
            /\ NextItem
    /\ UNCHANGED <<agentVars, appVars>>
    /\ UNCHANGED <<form, counts, passResult, lastOp, lastSel, filledSelectors, passLen, ops>>

\* return { filled: filledCount, failed: tracker.getFailedFields().length }
AutofillReturn ==
    /\ pass = "compliance"
    /\ todo = << >>
    /\ pass' = "idle"
    /\ passResult' = [by |-> "autofillForm", filled |-> GetFilledCount(tracker),
                      failed |-> Cardinality(GetFailedFields(tracker))]
    /\ attempts' = << >>
    /\ UNCHANGED <<agentVars, appVars>>
    /\ UNCHANGED <<tracker, now, dom, todo, form, counts, pageClosed, lastOp, lastSel,
                   filledSelectors, filledBy, processed, passLen, ops>>

\* fillFormWithAI: extractFormFields, the AI's answers, applyAnswersToForm
FillFormWithAI(answers) ==
    /\ pass = "idle"
    /\ ops < MaxOps
    /\ ops' = ops + 1
    /\ form' = ExtractFormFields(dom)
    /\ attempts' = << >>
    /\ counts' = NoCounts
    /\ IF Len(form') = 0
       THEN /\ passResult' = [by |-> "fillFormWithAI", filled |-> 0, failed |-> 0]
            /\ UNCHANGED <<pass, todo, processed, passLen>>
       ELSE /\ StartLoop("ai", answers)
            /\ passResult' = NoPassResult
    /\ UNCHANGED <<agentVars, appVars>>
    /\ UNCHANGED <<tracker, now, dom, pageClosed, lastOp, lastSel, filledSelectors,
                   filledBy>>

\* one answer; the delay at the end of the iteration (page.waitForTimeout(50))
\* is not guarded
ApplyAnswerStep(env) ==
    /\ pass = "ai"
    /\ todo # << >>
    /\ LET r == ApplyAnswer(tracker, dom, now, form, counts, Head(todo), env) IN
       /\ env = "closed" => r.delay
       /\ ApplyOut(r.out, "AI")
       /\ counts' = r.counts
       /\ IF env = "closed" THEN Raise(TRUE) ELSE NextItem
    /\ UNCHANGED <<agentVars, appVars>>
    /\ UNCHANGED <<form, passResult, lastOp, lastSel, filledSelectors, passLen, ops>>

\* return { filled, failed }
ApplyAnswersReturn ==
    /\ pass = "ai"
    /\ todo = << >>
    /\ pass' = "idle"
    /\ passResult' = [by |-> "applyAnswersToForm", filled |-> counts.filled,
                      failed |-> counts.failed]
    /\ attempts' = << >>
    /\ UNCHANGED <<agentVars, appVars>>
    /\ UNCHANGED <<tracker, now, dom, todo, form, counts, pageClosed, lastOp, lastSel,
                   filledSelectors, filledBy, processed, passLen, ops>>

\* the agent executes a fill_field or select_option action (executeAction)
AgentFill(a, env) ==
    /\ pass = "idle"
    /\ ops < MaxOps
    /\ ops' = ops + 1
    /\ LET out == ExecuteAction(AgentPage, AgentFieldsOf(dom), a, env)
           i == QuerySelector(dom, out.filled)
       IN /\ dom' = IF out.ok /\ i # 0 THEN [dom EXCEPT ![i].value = a.value] ELSE dom
          /\ filledBy' = IF out.ok /\ i # 0
                         THEN [filledBy EXCEPT ![i] = @ \cup {"Agent"}]
                         ELSE filledBy
    /\ attempts' = <<AttemptRec("Agent", a.target, a.target \in DOMAIN tracker.filledFields,
                                TRUE, "none")>>
    /\ UNCHANGED <<agentVars, appVars>>
    /\ UNCHANGED <<tracker, now, pass, todo, form, counts, passResult, pageClosed, lastOp,
                   lastSel, filledSelectors, processed, passLen>>

FillNext ==
    \/ ResetFormTracker
    \/ AutofillForm
    \/ \E env \in PassEnv : BasicField(env)
    \/ EducationStart
    \/ \E env \in PassEnv : EducationContainer(env)
    \/ ComplianceStart
    \/ \E env \in PassEnv : ComplianceField(env)
    \/ AutofillReturn
    \/ \E answers \in AnswerLists : FillFormWithAI(answers)
    \/ \E env \in PassEnv : ApplyAnswerStep(env)
    \/ ApplyAnswersReturn
    \/ \E a \in AgentFillActions, env \in Env : AgentFill(a, env)

SpecFill == FillInit /\ [][FillNext]_vars

\* ------------------------------------------------------ agent loop: claims
Running == pc \in {"start", "observing", "deciding", "acting"}

\* the last n entries of a sequence
LastN(seq, n) == IF Len(seq) <= n THEN seq ELSE SubSeq(seq, Len(seq) - n + 1, Len(seq))

CountIn(seq, x) == Cardinality({i \in 1..Len(seq) : seq[i] = x})

AllSameClick ==
    /\ Len(history) >= 1
    /\ history[1][1] = "click_button"
    /\ \A i \in 1..Len(history) : history[i] = history[1]

\* C1: runFormAgent makes at most maxSteps observe-decide iterations; the
\* steps it returns never exceed maxSteps; and a return that is not caused by
\* the loop guard, the oracle's done/need_help or the failure limit is
\* success=false with reason 'Max steps reached' after exactly maxSteps steps.
C1_StepCeiling ==
    /\ steps <= maxSteps
    /\ Len(history) <= maxSteps
    /\ pc = "returned" =>
          /\ result.steps = steps
          /\ result.steps <= maxSteps
          /\ result.reason.kind \notin
                {"Action loop detected", "oracle", "Too many failed actions"}
             => result = Result(FALSE, maxSteps, ReasonMax)

C1_Witness ==
    /\ pc = "returned"
    /\ result = Result(FALSE, maxSteps, ReasonMax)
    /\ maxSteps >= 3
    /\ executed = maxSteps

\* the loop-guard rule of C2: when the key just decided occurs at least 3
\* times among the last 5 decided keys, the loop has returned success=false
\* with 'Action loop detected' and the action was not executed
LoopGuardRule ==
    (action # NoAction
        /\ CountIn(LastN(history, 5), ActionKey(action)) >= 3)
    => /\ pc = "returned"
       /\ result = Result(FALSE, steps, ReasonLoop(action))
       /\ executed = steps - 1

\* C2 as stated: the loop-guard rule, and every run in which the oracle
\* returned the identical click_button action each time it was asked ends
\* through the loop guard within 5 steps.
C2_Original ==
    /\ LoopGuardRule
    /\ (pc = "returned" /\ AllSameClick) =>
          (result.reason.kind = "Action loop detected" /\ result.steps <= 5)

\* C2 amended: the loop-guard rule, and the third identical click_button
\* decision from the start ends the loop through the loop guard at step 3
\* (a run with maxSteps < 3 ends with 'Max steps reached' instead).
C2_LoopGuard ==
    /\ LoopGuardRule
    /\ (AllSameClick /\ Len(history) >= 3) =>
          /\ pc = "returned"
          /\ result = Result(FALSE, 3, ReasonLoop(action))
    /\ (pc = "returned" /\ AllSameClick /\ maxSteps >= 3) =>
          (result.reason.kind = "Action loop detected" /\ result.steps <= 5)

C2_Witness ==
    /\ pc = "returned"
    /\ AllSameClick
    /\ Len(history) = 3
    /\ result.reason.kind = "Action loop detected"
    /\ executed = 2

\* C3: a 'done' answer ends the loop with success=true and the oracle's
\* reason, a 'need_help' answer with success=false and the oracle's reason;
\* the action is not executed in that step, and 'done' as the first answer
\* gives steps = 1.
C3_DoneNeedHelp ==
    /\ action.type = "done" =>
          /\ pc = "returned"
          /\ result = Result(TRUE, steps, [kind |-> "oracle", text |-> action.reason])
          /\ executed = steps - 1
    /\ action.type = "need_help" =>
          /\ pc = "returned"
          /\ result = Result(FALSE, steps, [kind |-> "oracle", text |-> action.reason])
          /\ executed = steps - 1
    /\ (action.type = "done" /\ Len(history) = 1) => result.steps = 1

C3_Witness ==
    /\ pc = "returned"
    /\ action.type = "done"
    /\ action.reason = "r2"
    /\ Len(history) = 1
    /\ result.success
    /\ executed = 0

\* C4 as stated: after five failed executions in a row, of whatever action
\* types, the loop is no longer running, and if it returned, it returned
\* success=false.
C4_Original ==
    failRun >= 5 => (~Running /\ (pc = "returned" => ~result.success))

\* C4 amended: after five failed executions of actions other than
\* click_button with no successful execution between them, the loop has
\* returned success=false with 'Too many failed actions' (failed
\* click_button executions in between neither count nor reset the count).
C4_FiveFailures ==
    /\ nonClickFailRun <= 5
    /\ nonClickFailRun >= 5 =>
          /\ pc = "returned"
          /\ result = Result(FALSE, steps, ReasonFailures(action))

C4_Witness ==
    /\ pc = "returned"
    /\ nonClickFailRun = 5
    /\ failRun = 6
    /\ result.reason.kind = "Too many failed actions"


\* the observed buttons whose text contains the target, case-insensitively
ObservedMatches(obs, target) ==
    {i \in 1..Len(obs) : Includes(ToLower(obs[i].text), ToLower(target))}

\* C5: a click_button action clicks only a button listed in the latest
\* observation whose text contains the target (case-insensitive); when the
\* target matches no observed button nothing is clicked and the action
\* fails; disabled, unobserved and overlay buttons are never clicked.
C5_ClickOnlyObserved ==
    (lastOk # "none" /\ action.type = "click_button") =>
        /\ clicked # 0 =>
              /\ clicked \in ObservedIds(observation)
              /\ Includes(ToLower(page[clicked].text), ToLower(action.target))
              /\ ~page[clicked].disabled
              /\ ~page[clicked].overlay
        /\ ObservedMatches(observation, action.target) = {} =>
              (clicked = 0 /\ lastOk = "false")

\* the part of C5 the code does guarantee: a clicked element is enabled and
\* its text contains the target
C5_ClickedIsEnabledMatch ==
    clicked # 0 =>
        /\ ~page[clicked].disabled
        /\ Includes(ToLower(page[clicked].text), ToLower(action.target))

\* C6: between two resets of the tracker every selector has at most one
\* successful record: a step that is not a reset keeps every existing record
\* as it is (so a recordFill on a selector that has one keeps the first value,
\* module and timestamp), and getFilledCount is the number of distinct
\* selectors given to recordFill since the last reset.
C6_OneRecordPerSelector ==
    /\ [](GetFilledCount(tracker) = Cardinality(filledSelectors))
    /\ [][lastOp' # "reset" =>
            \A s \in DOMAIN tracker.filledFields :
                /\ s \in DOMAIN tracker'.filledFields
                /\ tracker'.filledFields[s] = tracker.filledFields[s]]_vars

\* C6 witness: the last call was a recordFill on a selector whose record is
\* older than that call, with two selectors recorded and a truncated value.
C6_Witness ==
    /\ lastOp = "recordFill"
    /\ lastSel \in DOMAIN tracker.filledFields
    /\ tracker.filledFields[lastSel].timestamp < now - 1
    /\ GetFilledCount(tracker) = 2
    /\ \E s \in DOMAIN tracker.filledFields :
          Len(tracker.filledFields[s].value) = TruncateLimit

\* ------------------------------------------ tracker and fill passes: claims
\* C7: a fill attempt on a selector that already has a successful record in
\* the current session never touches the page, whichever pass makes it
\* (basic fields, education, compliance, AI pass, agent fill_field /
\* select_option).
C7_FilledSelectorNeverTouched ==
    \A k \in DOMAIN attempts : attempts[k].hadRecord => ~attempts[k].touched

\* C8: every fill attempt of the fill executor (fillTextField,
\* fillSelectField, applyAnswersToForm) that reaches the page leaves a record
\* in the tracker: a successful record or a failure entry.
C8_EveryAttemptRecorded ==
    \A k \in DOMAIN attempts :
        attempts[k].via \in {"BasicFields", "AI"} /\ attempts[k].touched
            => attempts[k].recorded \in {"fill", "failure"}

\* C9: once a pass has returned, the number of successful records equals the
\* number of distinct controls the passes filled, and no control was filled by
\* two passes.
C9_RecordsEqualControlsFilled ==
    pass = "idle" /\ passResult.by # "none" =>
        LET PassFills(i) == filledBy[i] \ {"Agent"} IN
        /\ GetFilledCount(tracker)
              = Cardinality({i \in DOMAIN filledBy : PassFills(i) # {}})
        /\ \A i \in DOMAIN filledBy : Cardinality(PassFills(i)) <= 1

MaxJobs == 2

\* A URL is a tuple of tokens: "h:" is the scheme that makes it parseable by
\* new URL(), "?utm" one of the tracking parameters, the rest path characters.
\* normalizeUrl(url)
NormalizeUrl(url) ==
    IF url # << >> /\ url[1] = "h:"
    THEN ToLower(SelectSeq(url, LAMBDA c : c # "?utm"))
    ELSE ToLower(url)

\* getApplicationStatus(url): the position of the entry found, 0 for null
GetApplicationStatusNone(jobs, url) == 0

GetApplicationStatus(jobs, url) ==
    LET normalizedUrl == NormalizeUrl(url)
        Hit(i) == LET jobUrl == NormalizeUrl(jobs[i].url) IN
                  \/ jobUrl = normalizedUrl
                  \/ Includes(jobUrl, normalizedUrl)
                  \/ Includes(normalizedUrl, jobUrl)
    IN FirstIndex({i \in DOMAIN jobs : Hit(i)})

\* recordApplication(company, role, url, status) followed by saveHistory, which
\* logs a write error and leaves the file as it was
RecordApplication(jobs, url, status, saved) ==
    LET existingIndex ==
            FirstIndex({i \in DOMAIN jobs : NormalizeUrl(jobs[i].url) = NormalizeUrl(url)})
        application == [url |-> url, status |-> status]
    IN IF ~saved THEN jobs
       ELSE IF existingIndex > 0 THEN [jobs EXCEPT ![existingIndex] = application]
       ELSE Append(jobs, application)

\* A page as the navigator reads it is a record.  search: visible elements matched by
\* JOB_LISTING_INDICATORS.searchFields; markers: per application-form
\* indicator, the visibility of its matches in document order; url: "job" when
\* the URL has /job/ and no /apply; account: an account-creation phrase or
\* element shows; signIn: the text has both 'sign in' and 'password'; button:
\* the first visible element the APPLY_BUTTON_SELECTORS find.
\* isJobListingPage(): page.$$ counts every visible match
IsJobListingPageLenient(p) ==
    LET Visible(s) == Cardinality({i \in DOMAIN p.markers[s] : p.markers[s][i]})
        Sum[S \in SUBSET DOMAIN p.markers] ==
            IF S = {} THEN 0
            ELSE LET s == CHOOSE x \in S : TRUE IN Visible(s) + Sum[S \ {s}]
    IN \/ p.search > 2 /\ Sum[DOMAIN p.markers] < 5
       \/ p.url = "job"

IsJobListingPage(p) ==
    LET Visible(s) == Cardinality({i \in DOMAIN p.markers[s] : p.markers[s][i]})
        Sum[S \in SUBSET DOMAIN p.markers] ==
            IF S = {} THEN 0
            ELSE LET s == CHOOSE x \in S : TRUE IN Visible(s) + Sum[S \ {s}]
        applicationFieldCount == Sum[DOMAIN p.markers]
    IN \/ p.search > 2 /\ applicationFieldCount < 3
       \/ p.url = "job"

\* isApplicationFormPage(): page.$ looks at the first match of each indicator;
\* the name and e-mail fields only have to exist
IsApplicationFormPage(p) ==
    LET foundCount == Cardinality({s \in DOMAIN p.markers :
                                      p.markers[s] # << >> /\ p.markers[s][1]})
        hasNameField == p.markers["firstName"] # << >> \/ p.markers["lastName"] # << >>
        hasEmailField == p.markers["email"] # << >>
    IN foundCount >= 2 \/ (hasNameField /\ hasEmailField)

\* navigateToApplicationForm(): p is the page at the call, q the page the
\* click on the Apply button leads to.  clicked is the button clickApplyButton
\* clicked, page the page the browser shows at the return.
NavigateToApplicationForm(p, q) ==
    LET Res(success, account, login, btn, shown) ==
            [success |-> success, needsAccountCreation |-> account,
             needsLogin |-> login, clicked |-> btn, page |-> shown]
        listing == IsJobListingPage(p)
        applyBtn == IF listing THEN p.button ELSE "none"
        cur == IF applyBtn # "none" THEN q ELSE p
        formLoaded == IsApplicationFormPage(cur) \/ cur.account
    IN IF IsApplicationFormPage(p) THEN Res(TRUE, FALSE, FALSE, "none", p)
       ELSE IF listing /\ p.button = "none" THEN Res(FALSE, FALSE, FALSE, "none", p)
       ELSE IF cur.account THEN Res(FALSE, TRUE, FALSE, applyBtn, cur)
       ELSE IF cur.signIn THEN Res(FALSE, FALSE, TRUE, applyBtn, cur)
       ELSE IF formLoaded /\ IsApplicationFormPage(cur)
            THEN Res(TRUE, FALSE, FALSE, applyBtn, cur)
       ELSE Res(FALSE, FALSE, FALSE, applyBtn, cur)

\* the pages the model loads: every combination of the navigator's inputs
Sites ==
    LET Markers(first, last, email, file) ==
            [firstName |-> first, lastName |-> last, email |-> email, file |-> file]
        Site(search, markers, url, account, signIn, button) ==
            [search |-> search, markers |-> markers, url |-> url, account |-> account,
             signIn |-> signIn, button |-> button]
        MarkerSets == {Markers(<< >>, << >>, << >>, << >>),
                       Markers(<< >>, << >>, <<FALSE>>, <<TRUE>>),
                       Markers(<<TRUE>>, << >>, <<TRUE>>, <<TRUE>>)}
        Kinds == {<<0, "other">>, <<3, "other">>, <<0, "job">>, <<3, "job">>}
    IN {Site(k[1], m, k[2], a, FALSE, b) :
            k \in Kinds, m \in MarkerSets, a \in BOOLEAN,
            b \in {"none", "apply", "submit"}}
       \cup {Site(0, Markers(<< >>, << >>, << >>, << >>), "other", FALSE, TRUE, "none")}

\* main: for (...) processApplication(normalizedJob, resumePath, autoSubmit,
\* interactive); the call starts with the history check and returns 'skipped'
\* when getApplicationStatus finds an entry
ProcessApplication(url) ==
    /\ app.pc \in {"main", "returned"}
    /\ app.calls < MaxJobs
    /\ LET found == GetApplicationStatus(appHistory, url)
           call == [app EXCEPT !.calls = @ + 1, !.url = url,
                               !.status = "none", !.navigated = FALSE,
                               !.navPage = [url |-> "none"], !.nav = [url |-> "none"],
                               !.handler = FALSE, !.confirmed = FALSE,
                               !.submitClicked = FALSE, !.fillOps = 0,
                               !.known = (found # 0),
                               !.same = (\E i \in DOMAIN appHistory :
                                            appHistory[i].url = url)]
       IN app' = IF found # 0
                 THEN [call EXCEPT !.pc = "returned", !.status = "skipped"]
                 ELSE [call EXCEPT !.pc = "navigate"]
    /\ site' = [url |-> "none"]
    /\ UNCHANGED <<agentVars, fillVars, appHistory, ui, lookup>>

\* browser.navigateTo, navigateToApplicationForm and the checkpoints that
\* follow it (index.ts 69-119).  env "throw": navigateTo raises and the catch
\* returns 'failed'.  p is the page loaded, q the page behind the Apply
\* button, r the page the human leaves at a checkpoint (q and r are pages
\* without search fields and buttons: an account page or an application form).
Navigate(env, p, q, r) ==
    /\ app.pc = "navigate"
    /\ IF env = "throw"
       THEN /\ app' = [app EXCEPT !.pc = "returned", !.status = "failed",
                                  !.navigated = TRUE]
            /\ site' = site
       ELSE LET navResult == NavigateToApplicationForm(p, q)
                paused == navResult.needsAccountCreation \/ navResult.needsLogin
                shown == IF ~paused /\ IsApplicationFormPage(navResult.page)
                         THEN navResult.page ELSE r
            IN /\ app' = [app EXCEPT !.pc = "reset", !.navigated = TRUE,
                                     !.navPage = p, !.nav = navResult,
                                     !.submitClicked = (navResult.clicked = "submit")]
               /\ site' = shown
    /\ UNCHANGED <<agentVars, fillVars, appHistory, ui, lookup>>

\* the fill variables processApplication leaves alone
fillRest == <<dom, pass, todo, form, counts, passResult, pageClosed, lastOp, lastSel,
              filledSelectors, attempts, filledBy, processed, passLen, ops>>

\* resetFormTracker() (index.ts 122)
ResetTrackerSkipped ==
    /\ app.pc = "reset"
    /\ app' = [app EXCEPT !.pc = "upload", !.navPage = [url |-> "none"], !.nav = [url |-> "none"]]
    /\ UNCHANGED <<agentVars, tracker, now, fillRest, appHistory, site, ui, lookup>>

ResetTracker ==
    /\ app.pc = "reset"
    /\ tracker' = NewTracker
    /\ app' = [app EXCEPT !.pc = "upload", !.navPage = [url |-> "none"], !.nav = [url |-> "none"]]
    /\ UNCHANGED <<agentVars, now, fillRest, appHistory, site, ui, lookup>>

\* if (resumePath) uploadResume(resumePath, job.ats): the file input is found
\* (the first match of 'input[type="file"]' exists) or not.  The clock is
\* read, and every fill of one run of the program may fall on the same tick.
UploadResume ==
    /\ app.pc = "upload"
    /\ IF app.resume
       THEN /\ app' = [app EXCEPT !.pc = "fill", !.fillOps = @ + 1]
            /\ IF site.markers["file"] # << >>
               THEN /\ tracker' = RecordFill(tracker, <<"f", "i", "l", "e">>,
                                             <<"R", "e", "s", "u", "m", "e">>,
                                             <<"c", "v">>, "Resume", now)
               ELSE UNCHANGED tracker
       ELSE /\ app' = [app EXCEPT !.pc = "fill"]
            /\ UNCHANGED tracker
    /\ UNCHANGED <<agentVars, now, fillRest, appHistory, site, ui, lookup>>

\* interactive: the overlay panel is open until the human presses Enter;
\* otherwise fillFormWithAI, or the error thrown when no AI is configured
\* (index.ts 133-182).  how: what the pass did with the e-mail field.
FillStep(how) ==
    /\ app.pc = "fill"
    /\ IF app.interactive
       THEN /\ how = "panel"
            /\ app' = [app EXCEPT !.pc = "submit", !.fillOps = @ + 1]
            /\ UNCHANGED tracker
       ELSE CASE how = "noAI" ->
                   /\ app' = [app EXCEPT !.pc = "returned", !.status = "failed"]
                   /\ UNCHANGED tracker
              [] how = "filled" ->
                   /\ app' = [app EXCEPT !.pc = "submit", !.fillOps = @ + 1]
                   /\ tracker' = RecordFill(tracker, SelEmail, TxtEmail, ValEmail, "AI", now)
              [] how = "failed" ->
                   /\ app' = [app EXCEPT !.pc = "submit", !.fillOps = @ + 1]
                   /\ tracker' = RecordFailure(tracker, SelEmail, TxtEmail,
                                               "Could not fill", "AI")
              [] OTHER -> FALSE
    /\ UNCHANGED <<agentVars, now, fillRest, appHistory, site, ui, lookup>>

\* the confirm-and-submit branch (index.ts 200-298).  answer: what the human
\* types at confirmSubmission; outcome: what submitWithRetry did; onFailure:
\* the human's answer to handleFailure; manualDone: detectSubmissionSuccess
\* after the manual checkpoint; saved: saveHistory wrote the file.
SubmitStep(answer, outcome, onFailure, manualDone, saved) ==
    /\ app.pc = "submit"
    /\ IF ~app.autoSubmit
       THEN /\ app' = [app EXCEPT !.pc = "returned", !.status = "partial"]
            /\ UNCHANGED appHistory
       ELSE IF ~answer
       THEN /\ app' = [app EXCEPT !.pc = "returned", !.status = "skipped"]
            /\ UNCHANGED appHistory
       ELSE LET clicks == app.submitClicked \/ outcome \in {"success", "unconfirmed"}
                status == IF outcome = "success" THEN "submitted"
                          ELSE IF onFailure = "manual" /\ manualDone THEN "submitted"
                          ELSE IF onFailure = "skip" THEN "skipped"
                          ELSE "failed"
            IN /\ app' = [app EXCEPT !.pc = "returned", !.status = status,
                                     !.confirmed = TRUE, !.handler = TRUE,
                                     !.submitClicked = clicks]
               /\ appHistory' = IF status = "skipped" THEN appHistory
                                ELSE RecordApplication(appHistory, app.url, status, saved)
    /\ UNCHANGED <<agentVars, fillVars, site, ui, lookup>>

\* the apply_url of the jobs main iterates over: a job, the same job with a
\* tracking parameter and another case, a job whose URL contains the first,
\* an unrelated job
JobUrls == {<<"h:", "j">>, <<"h:", "J", "?utm">>, <<"h:", "j", "2">>, <<"h:", "k">>}

AppInit ==
    /\ AgentIdle
    /\ FillIdle
    /\ appHistory = << >>
    /\ \E a, i, resume \in BOOLEAN :
          app = [pc |-> "main", calls |-> 0, autoSubmit |-> a, interactive |-> i,
                 url |-> NoText, resume |-> resume, status |-> "none",
                 navigated |-> FALSE, navPage |-> [url |-> "none"], nav |-> [url |-> "none"],
                 handler |-> FALSE, confirmed |-> FALSE, submitClicked |-> FALSE,
                 fillOps |-> 0, known |-> FALSE, same |-> FALSE]
    /\ site = [url |-> "none"]
    /\ ui = [panel |-> "none"]
    /\ lookup = [result |-> "none"]

AppNext ==
    \/ \E url \in JobUrls : ProcessApplication(url)
    \/ \E env \in Env, p \in Sites,
          q, r \in {x \in Sites : /\ x.search = 0 /\ x.url = "other" /\ x.button = "none"
                                  /\ ~x.signIn
                                  /\ x.markers.file = (IF x.account THEN << >>
                                                       ELSE <<TRUE>>)} :
              Navigate(env, p, q, r)
    \/ ResetTracker
    \/ UploadResume
    \/ \E how \in {"panel", "noAI", "filled", "failed"} : FillStep(how)
    \/ \E answer, manualDone, saved \in BOOLEAN,
          outcome \in {"success", "unconfirmed", "notClicked"},
          onFailure \in {"retry", "skip", "manual"} :
              SubmitStep(answer, outcome, onFailure, manualDone, saved)

SpecApp == AppInit /\ [][AppNext]_vars

\* ---------------------------------------------------------------------------
\* The overlay panel (OverlayUI): the handlers its buttons start through the
\* exposed functions, and the page navigating under them.
\* ---------------------------------------------------------------------------
MaxClicks == 3
MaxLoads == 2

\* OverlayUI after inject(): OVERLAY_HTML as injected (fill-btn disabled),
\* this.fields = [], agentRunning = false.  calls: the handlers in flight, each
\* with the awaits it has passed and the field list its loop iterates over;
\* fields: the page generation this.fields was extracted from, -1 for [];
\* gen: the navigations of the page so far.  loadListener: navigationHandler is
\* registered for 'load'; domListener: the anonymous listener of
\* setupNavigationListener is registered for 'domcontentloaded'; removed:
\* remove() has completed; refused, failedRun: a runAgent call was turned away
\* by the flag, a run ended without a result.
OverlayInit ==
    /\ AgentIdle
    /\ FillIdle
    /\ appHistory = << >>
    /\ app = [pc |-> "checkpoint"]
    /\ site = [url |-> "none"]
    /\ lookup = [result |-> "none"]
    /\ ui = [panel |-> "open", calls |-> << >>, agentRunning |-> FALSE,
             detectBtn |-> TRUE, fillBtn |-> FALSE, agentBtn |-> TRUE,
             fields |-> -1, gen |-> 0, clicks |-> 0,
             staleFill |-> FALSE, passwordWritten |-> FALSE,
             loadListener |-> TRUE, domListener |-> TRUE, removed |-> FALSE,
             refused |-> FALSE, failedRun |-> FALSE]

\* the human clicks a button of the panel: the exposed function starts the
\* handler (exposeFunctions).  Only runAgent looks at a flag before it starts
\* and sets it before its first await; detectFields disables its button.
Click(op) ==
    /\ ui.panel = "open"
    /\ ui.clicks < MaxClicks
    /\ CASE op = "detect" -> ui.detectBtn
         [] op = "fill" -> ui.fillBtn
         [] op = "agent" -> ui.agentBtn
         [] OTHER -> TRUE
    /\ LET call == [op |-> op, at |-> 0, list |-> -1]
           u == [ui EXCEPT !.clicks = @ + 1]
       IN ui' = CASE op = "agent" /\ ui.agentRunning -> [u EXCEPT !.refused = TRUE]
                  [] op = "agent" /\ ~ui.agentRunning ->
                        [u EXCEPT !.calls = Append(@, call), !.agentRunning = TRUE]
                  [] op = "detect" ->
                        [u EXCEPT !.calls = Append(@, call), !.detectBtn = FALSE]
                  [] OTHER -> [u EXCEPT !.calls = Append(@, call)]
    /\ UNCHANGED <<agentVars, fillVars, appHistory, app, site, lookup>>

\* the handler in flight at position i passes its next page interaction:
\* detectFields extracts and assigns this.fields, then generates the answers;
\* fillForm fills the next field of the list its loop runs over; signUp fills
\* the e-mail field, then the password field; runAgent disables agent-btn,
\* then runs the agent; quickFill works on the page.
Work(i) ==
    /\ i \in DOMAIN ui.calls
    /\ ui.calls[i].at < 2
    /\ LET c == ui.calls[i]
           list == IF c.op = "fill" /\ c.at = 0 THEN ui.fields ELSE c.list
           u == [ui EXCEPT !.calls[i] = [c EXCEPT !.at = @ + 1, !.list = list]]
       IN ui' = CASE c.op = "detect" /\ c.at = 0 -> [u EXCEPT !.fields = ui.gen]
                  [] c.op = "fill" /\ list >= 0 ->
                        [u EXCEPT !.staleFill = @ \/ list < ui.gen]
                  [] c.op = "signUp" /\ c.at = 1 -> [u EXCEPT !.passwordWritten = TRUE]
                  [] c.op = "agent" /\ c.at = 0 -> [u EXCEPT !.agentBtn = FALSE]
                  [] OTHER -> u
    /\ UNCHANGED <<agentVars, fillVars, appHistory, app, site, lookup>>

\* the handler at position i returns: detectFields enables detect-btn and
\* fill-btn, runAgent's finally clears agentRunning and enables agent-btn
Return(i) ==
    /\ i \in DOMAIN ui.calls
    /\ ui.calls[i].at = 2
    /\ LET c == ui.calls[i]
           u == [ui EXCEPT !.calls = SubSeq(@, 1, i - 1) \o SubSeq(@, i + 1, Len(@))]
       IN ui' = CASE c.op = "detect" -> [u EXCEPT !.detectBtn = TRUE, !.fillBtn = TRUE]
                  [] c.op = "agent" -> [u EXCEPT !.agentRunning = FALSE, !.agentBtn = TRUE]
                  [] OTHER -> u
    /\ UNCHANGED <<agentVars, fillVars, appHistory, app, site, lookup>>

\* a run that keeps the flag when it ends without a result
RunAgentFailsKeepsFlag(i) ==
    /\ i \in DOMAIN ui.calls
    /\ ui.calls[i].op = "agent"
    /\ ui.calls[i].at < 2
    /\ ui' = [ui EXCEPT !.calls = SubSeq(@, 1, i - 1) \o SubSeq(@, i + 1, Len(@)),
                        !.failedRun = TRUE]
    /\ UNCHANGED <<agentVars, fillVars, appHistory, app, site, lookup>>

\* the run at position i ends without a result: getAIConfig gave null, or an
\* await of the try block or runFormAgent raised and the catch logged it; the
\* finally clears agentRunning and enables agent-btn
RunAgentFails(i) ==
    /\ i \in DOMAIN ui.calls
    /\ ui.calls[i].op = "agent"
    /\ ui.calls[i].at < 2
    /\ ui' = [ui EXCEPT !.calls = SubSeq(@, 1, i - 1) \o SubSeq(@, i + 1, Len(@)),
                        !.agentRunning = FALSE, !.agentBtn = TRUE,
                        !.failedRun = TRUE]
    /\ UNCHANGED <<agentVars, fillVars, appHistory, app, site, lookup>>

\* remove(): navigationHandler is taken off 'load' (and off
\* 'domcontentloaded', where it was never registered) and set to null, then
\* the panel is taken out of the document
Remove ==
    /\ ui.panel = "open"
    /\ ~ui.removed
    /\ ui' = [ui EXCEPT !.loadListener = FALSE, !.panel = "none", !.removed = TRUE]
    /\ UNCHANGED <<agentVars, fillVars, appHistory, app, site, lookup>>

\* the page navigates.  A new document ("load") fires 'domcontentloaded' and
\* 'load': a registered listener injects the panel again as OVERLAY_HTML,
\* without one the new document has no panel; after a navigation inside the
\* document ("inPage") no event fires and the document keeps what it has.
\* this.fields is kept.
PageNavigates(kind) ==
    /\ ui.gen < MaxLoads
    /\ ui' = IF kind = "load"
             THEN IF ui.loadListener \/ ui.domListener
                  THEN [ui EXCEPT !.gen = @ + 1, !.panel = "open", !.detectBtn = TRUE,
                                  !.fillBtn = FALSE, !.agentBtn = TRUE]
                  ELSE [ui EXCEPT !.gen = @ + 1, !.panel = "none"]
             ELSE [ui EXCEPT !.gen = @ + 1]
    /\ UNCHANGED <<agentVars, fillVars, appHistory, app, site, lookup>>

OverlayNext ==
    \/ \E op \in {"detect", "fill", "signUp", "agent", "quick"} : Click(op)
    \/ \E i \in 1..MaxClicks : Work(i)
    \/ \E i \in 1..MaxClicks : Return(i)
    \/ \E i \in 1..MaxClicks : RunAgentFails(i)
    \/ Remove
    \/ \E kind \in {"load", "inPage"} : PageNavigates(kind)

SpecOverlay == OverlayInit /\ [][OverlayNext]_vars


\* ---------------------------------------------------------------------------
\* findMatchingOption of the question handler: the option of a <select> that
\* matches a target text.
\* ---------------------------------------------------------------------------
\* findMatchingOption(page, selector, targetValue, optionMatches): options are
\* the {value, text} of the <option> elements in document order,
\* optionMatches the entries {key, matches} of the alias table in order (none
\* when the argument is undefined); env "throw": page.$$eval rejects.  The
\* result is the value returned, found FALSE for null, threw TRUE for the null
\* of the catch.
FindMatchingOption(options, targetValue, optionMatches, env) ==
    LET lowerTarget == ToLower(targetValue)
        Ret(value) == [done |-> TRUE, threw |-> FALSE, found |-> TRUE, value |-> value]
        Null == [done |-> TRUE, threw |-> env = "throw", found |-> FALSE, value |-> NoText]
        Named(k) == \E j \in DOMAIN optionMatches[k].matches :
                        Includes(lowerTarget, ToLower(optionMatches[k].matches[j]))
        OptFor(k) == FirstIndex({i \in DOMAIN options :
                        \/ Includes(ToLower(options[i].text), optionMatches[k].key)
                        \/ Includes(ToLower(options[i].value), optionMatches[k].key)
                        \/ \E j \in DOMAIN optionMatches[k].matches :
                              Includes(ToLower(options[i].text),
                                       ToLower(optionMatches[k].matches[j]))})
        byAlias == FirstIndex({k \in DOMAIN optionMatches : Named(k) /\ OptFor(k) > 0})
        exactMatch == FirstIndex({i \in DOMAIN options :
                        \/ ToLower(options[i].text) = lowerTarget
                        \/ ToLower(options[i].value) = lowerTarget})
        partialMatch == FirstIndex({i \in DOMAIN options :
                        \/ Includes(ToLower(options[i].text), lowerTarget)
                        \/ Includes(lowerTarget, ToLower(options[i].text))})
    IN IF env = "throw" THEN Null
       ELSE IF byAlias > 0 THEN Ret(options[OptFor(byAlias)].value)
       ELSE IF exactMatch > 0 THEN Ret(options[exactMatch].value)
       ELSE IF partialMatch > 0 THEN Ret(options[partialMatch].value)
       ELSE Null

\* a <select> with two of these options, a target text, and the alias table of
\* the mapping or none (handleDropdown)
LookupInit ==
    /\ AgentIdle
    /\ FillIdle
    /\ appHistory = << >>
    /\ app = [pc |-> "idle"]
    /\ site = [url |-> "none"]
    /\ ui = [panel |-> "none"]
    /\ LET Opt(value, text) == [value |-> value, text |-> text]
           Options == {Opt(<<"1">>, <<"Y", "e", "s">>), Opt(<<"2">>, <<"N", "o">>),
                       Opt(<<"y", "e", "s">>, <<"N", "o">>),
                       Opt(<<"3">>, <<"Y", "e", "s", "+">>), Opt(<<"0">>, << >>)}
           yes == [key |-> <<"y", "e", "s">>, matches |-> << <<"Y", "e", "s">> >>]
       IN \E a, b \in Options, t \in {<<"Y", "E", "S">>, <<"n", "o">>},
             m \in {<< >>, <<yes>>} :
             lookup = [options |-> <<a, b>>, targetValue |-> t, optionMatches |-> m,
                       result |-> [done |-> FALSE]]

\* const optionValue = await findMatchingOption(...)
Lookup(env) ==
    /\ ~lookup.result.done
    /\ lookup' = [lookup EXCEPT !.result =
                     FindMatchingOption(lookup.options, lookup.targetValue,
                                        lookup.optionMatches, env)]
    /\ UNCHANGED <<agentVars, fillVars, appHistory, app, site, ui>>

SpecLookup == LookupInit /\ [][\E env \in Env : Lookup(env)]_vars

\* ---------------------------------------------------------------------------
\* Claims on processApplication
\* ---------------------------------------------------------------------------
\* C11: the tracker is reset at the start of every application attempt: when
\* the first fill operation of processApplication (the resume upload or, with
\* no resume, the fill pass) is about to begin, the tracker holds no filled,
\* attempted or failed entry and isFieldFilled is false for every selector.
C11_TrackerEmptyAtFirstFill ==
    app.pc \in {"upload", "fill"} /\ app.fillOps = 0 =>
        /\ tracker = NewTracker
        /\ \A s \in {SelEmail, <<"f", "i", "l", "e">>} : ~IsFieldFilled(tracker, s)

\* C11 witness: a second attempt is about to upload the resume after an
\* earlier automatic attempt went through its fill pass and was recorded.
C11_Witness ==
    /\ app.calls = 2
    /\ app.pc = "upload"
    /\ app.resume
    /\ ~app.interactive
    /\ appHistory # << >>
    /\ tracker = NewTracker

\* C12: runFormAgent raises only when the oracle call itself fails: an error
\* from a page interaction (observation, click, fill, wait) becomes a failure
\* outcome and never leaves runFormAgent as an exception.  In the model an
\* exception leaves runFormAgent when pc becomes "thrown", and the oracle call
\* is the one pending while pc is "deciding".
C12_RaisesOnlyOnOracleFailure ==
    [][pc' = "thrown" => pc \in {"deciding", "thrown"}]_vars

\* C13: at any time at most one operation of the panel (detection, form
\* fill, quick fill, sign-up fill, agent run) is in flight against the page.
C13_OneOperationInFlight ==
    ui.panel = "open" => Len(ui.calls) <= 1

\* C14: every fill executed against the page uses a field list extracted
\* after the most recent navigation of that page: no field is filled from a
\* list captured before a navigation.
C14_FillUsesFreshFields ==
    ui.panel = "open" => ~ui.staleFill

\* C17: no operation of the program writes a value into a password or
\* confirm-password field.
C17_NoPasswordWritten ==
    ui.panel = "open" => ~ui.passwordWritten

\* C15: with autoSubmit = false the submission handler is never invoked and
\* the returned status is never 'submitted'; with autoSubmit = true a submit
\* button is clicked only after the human confirmed the submission.
C15_SubmitOnlyAfterConfirmation ==
    /\ ~app.autoSubmit => ~app.handler /\ app.status # "submitted"
    /\ app.autoSubmit /\ app.submitClicked => app.confirmed

\* C16: a job whose URL matches an entry of the history is never processed
\* again: processApplication returns 'skipped' without navigating or filling;
\* and an entry recorded as submitted stays in the history, so that every
\* later processApplication for the same URL is skipped.
C16_KnownJobSkipped ==
    /\ [](app.known \/ app.same =>
            /\ app.pc = "returned"
            /\ app.status = "skipped"
            /\ ~app.navigated
            /\ app.fillOps = 0
            /\ ~app.handler)
    /\ [][\A i \in DOMAIN appHistory :
            appHistory[i].status = "submitted" =>
                /\ i \in DOMAIN appHistory'
                /\ appHistory'[i] = appHistory[i]]_vars

\* C16 witness: the second call is for a URL the first call recorded as
\* submitted, and it returned 'skipped'.
C16_Witness ==
    /\ app.calls = 2
    /\ app.same
    /\ app.status = "skipped"
    /\ \E i \in DOMAIN appHistory :
          appHistory[i].url = app.url /\ appHistory[i].status = "submitted"

\* C18: whenever the page navigateToApplicationForm is called on shows an
\* account-creation indicator, the result has needsAccountCreation = true,
\* even if the page also qualifies as an application form or as a listing.
C18_AccountCreationReported ==
    app.pc = "reset" /\ app.navPage.account => app.nav.needsAccountCreation

\* the visible application markers of page q, and q with a visible first-name,
\* last-name, e-mail and resume marker added at the end of the document
VisibleMarkers(q) ==
    Cardinality({x \in {<<s, i>> : s \in DOMAIN q.markers, i \in 1..2} :
                    x[2] \in DOMAIN q.markers[x[1]] /\ q.markers[x[1]][x[2]]})

WithFormMarkers(q) ==
    [q EXCEPT !.markers = [s \in DOMAIN q.markers |-> Append(q.markers[s], TRUE)]]

\* C19 as stated: a page with more than 2 visible listing markers and fewer
\* than 3 visible application markers is classified as a listing; the same
\* page with four visible name, e-mail and resume markers added is classified
\* as an application form and not as a listing.
C19_Original ==
    app.pc = "reset" /\ app.navPage.search > 2 /\ VisibleMarkers(app.navPage) < 3 =>
        /\ IsJobListingPage(app.navPage)
        /\ IsApplicationFormPage(WithFormMarkers(app.navPage))
        /\ ~IsJobListingPage(WithFormMarkers(app.navPage))

\* C19 amended: the page with the four markers added is an application form,
\* and it is no longer a listing unless its URL has the shape of a job page
\* (/job/ without /apply), which isJobListingPage accepts whatever the markers.
C19_ListingAndFormClassification ==
    app.pc = "reset" /\ app.navPage.search > 2 /\ VisibleMarkers(app.navPage) < 3 =>
        /\ IsJobListingPage(app.navPage)
        /\ IsApplicationFormPage(WithFormMarkers(app.navPage))
        /\ app.navPage.url # "job" => ~IsJobListingPage(WithFormMarkers(app.navPage))

\* C19 witness: navigateToApplicationForm was called on a page with 3 visible
\* search fields, fewer than 3 visible application markers and no job URL.
C19_Witness ==
    /\ app.pc = "reset"
    /\ app.navPage.search > 2
    /\ VisibleMarkers(app.navPage) < 3
    /\ app.navPage.url = "other"
    /\ IsJobListingPage(app.navPage)
    /\ ~IsJobListingPage(WithFormMarkers(app.navPage))

\* C20: whenever some option's text equals the target text without regard to
\* case, findMatchingOption (having read the options) returns the value of an
\* option with that text, whatever the other options are and with or without
\* an alias table.
C20_ExactTextMatchWins ==
    lookup.result.done /\ ~lookup.result.threw
        /\ (\E i \in DOMAIN lookup.options :
                ToLower(lookup.options[i].text) = ToLower(lookup.targetValue))
    => /\ lookup.result.found
       /\ \E i \in DOMAIN lookup.options :
             /\ ToLower(lookup.options[i].text) = ToLower(lookup.targetValue)
             /\ lookup.options[i].value = lookup.result.value

\* ---------------------------------------------------------------------------
\* getProfileValue of the question handler: the value of a profile at a dotted
\* path. A JavaScript value is a record [t, v]: t its type, v the text of a
\* string, the truth value of a boolean, the elements of an array, or the
\* <<key, value>> pairs of an object in insertion order.
\* ---------------------------------------------------------------------------
Undefined == [t |-> "undefined", v |-> << >>]

\* value[key] for own data properties: a key of an object, a canonical index
\* or length of an array or a string; undefined otherwise
GetProperty(value, key) ==
    LET Digit(c) == CASE c = "0" -> 0 [] c = "1" -> 1 [] c = "2" -> 2 [] c = "3" -> 3
                      [] c = "4" -> 4 [] c = "5" -> 5 [] c = "6" -> 6 [] c = "7" -> 7
                      [] c = "8" -> 8 [] c = "9" -> 9 [] OTHER -> -1
        isIndex == /\ Len(key) > 0
                   /\ \A i \in DOMAIN key : Digit(key[i]) >= 0
                   /\ (Len(key) > 1 => key[1] # "0")
        num[n \in 0..Len(key)] == IF n = 0 THEN 0 ELSE 10 * num[n - 1] + Digit(key[n])
        own == FirstIndex({i \in DOMAIN value.v : value.v[i][1] = key})
    IN CASE value.t = "object" -> IF own > 0 THEN value.v[own][2] ELSE Undefined
         [] value.t \in {"array", "string"} ->
               IF isIndex /\ num[Len(key)] < Len(value.v)
               THEN IF value.t = "array" THEN value.v[num[Len(key)] + 1]
                    ELSE [t |-> "string", v |-> <<value.v[num[Len(key)] + 1]>>]
               ELSE IF key = <<"l", "e", "n", "g", "t", "h">>
               THEN [t |-> "number", v |-> << >>]
               ELSE Undefined
         [] OTHER -> Undefined

\* no part matches
ArrayMatchNone(part) == [found |-> FALSE, arrName |-> << >>, index |-> 0]

\* part.match(/(\w+)\[(\d+)\]/): the leftmost run of word characters that is
\* followed by "[", digits and "]"; found FALSE for null, index the
\* parseInt of the digits
ArrayMatch(part) ==
    LET IsDigit(c) == c \in {"0", "1", "2", "3", "4", "5", "6", "7", "8", "9"}
        IsWord(c) == c \notin {".", "[", "]", "-", " "}
        \* the end of the match that starts at i and has its "[" at j, or 0
        Close(i, j) ==
            FirstIndex({k \in (j + 2)..Len(part) :
                /\ part[k] = "]"
                /\ \A d \in (j + 1)..(k - 1) : IsDigit(part[d])})
        Starts == {<<i, j>> \in (DOMAIN part) \X (DOMAIN part) :
                      /\ i < j
                      /\ \A w \in i..(j - 1) : IsWord(part[w])
                      /\ part[j] = "["
                      /\ Close(i, j) > 0}
        first == FirstIndex({s[1] : s \in Starts})
        open == FirstIndex({s[2] : s \in {x \in Starts : x[1] = first}})
        digits == SubSeq(part, open + 1, Close(first, open) - 1)
        val[n \in 0..Len(digits)] ==
            IF n = 0 THEN 0
            ELSE 10 * val[n - 1]
                 + (CHOOSE d \in 0..9 :
                       <<"0", "1", "2", "3", "4", "5", "6", "7", "8", "9">>[d + 1] = digits[n])
    IN IF first = 0 THEN [found |-> FALSE, arrName |-> << >>, index |-> 0]
       ELSE [found |-> TRUE, arrName |-> SubSeq(part, first, open - 1),
             index |-> val[Len(digits)]]

\* getProfileValue(profile, fieldPath)
GetProfileValueAt(profile, fieldPath) ==
    LET dots == {i \in DOMAIN fieldPath : fieldPath[i] = "."}
        \* fieldPath.split('.')
        cuts == {0} \cup dots \cup {Len(fieldPath) + 1}
        NextCut(c) == CHOOSE n \in cuts : n > c /\ \A x \in cuts : x > c => n <= x
        start[k \in 1..(Cardinality(dots) + 1)] ==
            IF k = 1 THEN 0 ELSE NextCut(start[k - 1])
        parts == [k \in 1..(Cardinality(dots) + 1) |->
                     SubSeq(fieldPath, start[k] + 1, NextCut(start[k]) - 1)]
        Step(value, part) ==
            LET arrayMatch == ArrayMatch(part)
                named == GetProperty(value, arrayMatch.arrName)
            IN IF arrayMatch.found
               THEN IF named.t = "array"
                    THEN IF arrayMatch.index < Len(named.v)
                         THEN named.v[arrayMatch.index + 1] ELSE Undefined
                    ELSE named
               ELSE GetProperty(value, part)
        \* the value after the first k parts; returned TRUE once the loop has
        \* left through its return
        walk[k \in 0..Len(parts)] ==
            IF k = 0 THEN [value |-> profile, returned |-> FALSE]
            ELSE IF walk[k - 1].returned \/ walk[k - 1].value.t \in {"null", "undefined"}
            THEN [value |-> Undefined, returned |-> TRUE]
            ELSE [value |-> Step(walk[k - 1].value, parts[k]), returned |-> FALSE]
        last == walk[Len(parts)]
    IN IF ~last.returned /\ last.value.t \in {"string", "boolean"}
       THEN last.value ELSE Undefined

\* the mapping's profile_field: one or two parts, each a property name with or
\* without an index, joined with dots; a CandidateProfile with its personal
\* information and up to two education entries
ProfileInit ==
    /\ AgentIdle
    /\ FillIdle
    /\ appHistory = << >>
    /\ app = [pc |-> "idle"]
    /\ site = [url |-> "none"]
    /\ ui = [panel |-> "none"]
    /\ LET Str(text) == [t |-> "string", v |-> text]
           Object(pairs) == [t |-> "object", v |-> pairs]
           personal == <<"p", "e", "r", "s", "o", "n", "a", "l">>
           email == <<"e", "m", "a", "i", "l">>
           relocate == <<"w", "i", "l", "l", "i", "n", "g", "_", "t", "o", "_",
                         "r", "e", "l", "o", "c", "a", "t", "e">>
           education == <<"e", "d", "u", "c", "a", "t", "i", "o", "n">>
           school == <<"s", "c", "h", "o", "o", "l">>
           gpa == <<"g", "p", "a">>
           Entries == {Object(<< <<school, Str(<<"M", "I", "T">>)>>, <<gpa, Str(<<"4">>)>> >>),
                       Object(<< <<school, Str(<<"C", "M", "U">>)>> >>)}
           Educations == {<< >>} \cup {<<a>> : a \in Entries}
                            \cup {<<a, b>> : a \in Entries, b \in Entries}
           Personals == {Object(<< <<email, Str(<<"a", "@", "b">>)>> >>)}
                           \cup {Object(<< <<email, Str(<<"a", "@", "b">>)>>,
                                           <<relocate, [t |-> "boolean", v |-> b]>> >>)
                                 : b \in BOOLEAN}
           Part(name, digits, index) == [name |-> name, digits |-> digits, index |-> index]
           Names == {personal, email, relocate, education, school, gpa}
           Parts == {Part(n, << >>, -1) : n \in Names}
                       \cup {Part(n, <<"0">>, 0) : n \in Names}
                       \cup {Part(n, <<"1">>, 1) : n \in Names}
                       \cup {Part(education, <<"5">>, 5)}
           Text(p) == IF p.index < 0 THEN p.name ELSE p.name \o <<"[">> \o p.digits \o <<"]">>
           Paths == {<<p>> : p \in Parts} \cup {<<p, q>> : p \in Parts, q \in Parts}
       IN \E who \in Personals, entries \in Educations, path \in Paths :
             lookup =
                [profile |-> Object(<< <<personal, who>>,
                                       <<education, [t |-> "array", v |-> entries]>> >>),
                 parts |-> path,
                 fieldPath |-> IF Len(path) = 1 THEN Text(path[1])
                               ELSE Text(path[1]) \o <<".">> \o Text(path[2]),
                 result |-> [done |-> FALSE]]

\* let value = getProfileValue(profile, mapping.profile_field)
ProfileLookup ==
    /\ ~lookup.result.done
    /\ lookup' = [lookup EXCEPT !.result =
                     [done |-> TRUE,
                      value |-> GetProfileValueAt(lookup.profile, lookup.fieldPath)]]
    /\ UNCHANGED <<agentVars, fillVars, appHistory, app, site, ui>>

SpecProfile == ProfileInit /\ [][ProfileLookup]_vars

\* the value a path addresses in a profile: each part names an own property
\* of an object and, with an index, an element of the array so named;
\* lenient: an index on a property that is not an array selects the property
Addressed(profile, parts, lenient) ==
    LET Own(value, name) ==
            IF value.t # "object" THEN Undefined
            ELSE LET own == FirstIndex({i \in DOMAIN value.v : value.v[i][1] = name})
                 IN IF own > 0 THEN value.v[own][2] ELSE Undefined
        ElementAt(value, index) ==
            IF value.t = "array"
            THEN IF index < Len(value.v) THEN value.v[index + 1] ELSE Undefined
            ELSE IF lenient THEN value ELSE Undefined
        at[k \in 0..Len(parts)] ==
            IF k = 0 THEN profile
            ELSE IF parts[k].index < 0 THEN Own(at[k - 1], parts[k].name)
            ELSE ElementAt(Own(at[k - 1], parts[k].name), parts[k].index)
    IN IF at[Len(parts)].t \in {"string", "boolean"} THEN at[Len(parts)] ELSE Undefined

\* C21 as stated: getProfileValue returns the string or boolean that the path
\* addresses, and undefined whenever a part names no property or an index
\* names no element of an array (an index on a property that is not an array
\* included).
C21_Original ==
    lookup.result.done =>
        LET expected == Addressed(lookup.profile, lookup.parts, FALSE)
        IN /\ lookup.result.value.t = expected.t
           /\ expected.t # "undefined" => lookup.result.value.v = expected.v

\* C21: getProfileValue returns the string or boolean that the path addresses,
\* and undefined whenever a part names no property or an index lies beyond the
\* end of the array it indexes; an index on a property that is not an array
\* is ignored and the property itself is used.
C21_ResolvesOrUndefined ==
    lookup.result.done =>
        LET expected == Addressed(lookup.profile, lookup.parts, TRUE)
        IN /\ lookup.result.value.t = expected.t
           /\ expected.t # "undefined" => lookup.result.value.v = expected.v

\* C21 witness: education[0].school has returned the first entry's school
C21_Witness ==
    /\ lookup.result.done
    /\ lookup.fieldPath = <<"e", "d", "u", "c", "a", "t", "i", "o", "n", "[", "0", "]", ".",
                            "s", "c", "h", "o", "o", "l">>
    /\ lookup.result.value.t = "string"
    /\ lookup.result.value.v = <<"M", "I", "T">>

\* ---------------------------------------------------------------------------
\* fillCheckbox of the AI form filler: bring a checkbox to the state an answer
\* asks for.
\* ---------------------------------------------------------------------------
MaxFills == 2

\* a blind click on the element
FillCheckboxBlind(box, value, env) ==
    IF ~box.present THEN [ret |-> FALSE, raised |-> FALSE, clicks |-> 0, box |-> box]
    ELSE [ret |-> TRUE, raised |-> FALSE, clicks |-> 1,
          box |-> [box EXCEPT !.checked = ~box.checked]]

\* fillCheckbox(page, selector, value) on the element of the selector: box is
\* [present, checked]; env "isChecked": element.isChecked() rejects, "click":
\* element.click() rejects and leaves the box as it is. clicks counts the
\* calls of element.click(), raised is TRUE when the call rejects.
FillCheckbox(box, value, env) ==
    LET isChecked == box.checked
        shouldCheck == \/ ToLower(value) = <<"c", "h", "e", "c", "k">>
                       \/ ToLower(value) = <<"y", "e", "s">>
                       \/ ToLower(value) = <<"t", "r", "u", "e">>
        Out(ret, raised, clicks, checked) ==
            [ret |-> ret, raised |-> raised, clicks |-> clicks,
             box |-> [box EXCEPT !.checked = checked]]
    IN IF ~box.present THEN Out(FALSE, FALSE, 0, box.checked)
       ELSE IF env = "isChecked" THEN Out(FALSE, TRUE, 0, box.checked)
       ELSE IF isChecked # shouldCheck
       THEN IF env = "click" THEN Out(FALSE, TRUE, 1, box.checked)
            ELSE Out(TRUE, FALSE, 1, ~box.checked)
       ELSE Out(TRUE, FALSE, 0, box.checked)

\* a page with or without the checkbox, checked or not; no call made yet
CheckboxInit ==
    /\ AgentIdle
    /\ FillIdle
    /\ appHistory = << >>
    /\ app = [pc |-> "idle"]
    /\ ui = [panel |-> "none"]
    /\ lookup = [result |-> "none"]
    /\ \E present, checked \in BOOLEAN :
          site = [box |-> [present |-> present, checked |-> checked],
                  calls |-> 0, clicks |-> 0,
                  last |-> [value |-> << >>, affirmative |-> FALSE, env |-> "none",
                            before |-> checked, clicked |-> 0, ret |-> FALSE,
                            raised |-> FALSE]]

\* case 'checkbox': return await fillCheckbox(page, field.selector, value)
\* with an answer of the oracle; affirmative tells whether the answer is one
\* of check, yes and true in some letter case
CallFillCheckbox(answer, env) ==
    /\ site.calls < MaxFills
    /\ LET out == FillCheckbox(site.box, answer.value, env)
       IN site' = [box |-> out.box, calls |-> site.calls + 1,
                   clicks |-> site.clicks + out.clicks,
                   last |-> [value |-> answer.value, affirmative |-> answer.affirmative,
                             env |-> env, before |-> site.box.checked,
                             clicked |-> out.clicks, ret |-> out.ret,
                             raised |-> out.raised]]
    /\ UNCHANGED <<agentVars, fillVars, appHistory, app, ui, lookup>>

SpecCheckbox ==
    CheckboxInit
    /\ [][\E env \in {"ok", "isChecked", "click"},
             answer \in {[value |-> <<"c", "h", "e", "c", "k">>, affirmative |-> TRUE],
                         [value |-> <<"C", "h", "e", "c", "k">>, affirmative |-> TRUE],
                         [value |-> <<"y", "e", "s">>, affirmative |-> TRUE],
                         [value |-> <<"Y", "E", "S">>, affirmative |-> TRUE],
                         [value |-> <<"t", "r", "u", "e">>, affirmative |-> TRUE],
                         [value |-> <<"T", "r", "u", "e">>, affirmative |-> TRUE],
                         [value |-> <<"n", "o">>, affirmative |-> FALSE],
                         [value |-> <<"f", "a", "l", "s", "e">>, affirmative |-> FALSE],
                         [value |-> <<"u", "n", "c", "h", "e", "c", "k">>, affirmative |-> FALSE],
                         [value |-> <<"c", "h", "e", "c", "k", "e", "d">>, affirmative |-> FALSE],
                         [value |-> <<"o", "n">>, affirmative |-> FALSE],
                         [value |-> << >>, affirmative |-> FALSE]} :
             CallFillCheckbox(answer, env)]_vars

\* C22: a call of fillCheckbox that finds the checkbox and reads its state
\* calls click on it zero times when the state already equals the desired
\* state and exactly once when they differ, and the desired state is checked
\* exactly for the answers check, yes and true in any letter case.
C22_ClicksOnlyOnDifference ==
    site.calls > 0 /\ site.box.present /\ site.last.env # "isChecked" =>
        site.last.clicked = (IF site.last.before = site.last.affirmative THEN 0 ELSE 1)

\* C22 witness: a checked checkbox was given the answer Yes and not clicked
C22_Witness ==
    /\ site.calls > 0
    /\ site.box.present
    /\ site.last.before
    /\ site.last.affirmative
    /\ site.last.ret
    /\ site.last.clicked = 0
    /\ site.clicks = 0

\* ---------------------------------------------------------------------------
\* runFormAgent with a scheduler: the steps that wait on the page (getResumeText,
\* observePage, executeAction, the delay) always settle, Playwright bounding
\* each by its own timeout; the answer of the oracle (Decide, OracleFails) is
\* the settling of the fetch of decideAction, which carries no timeout or
\* abort signal, so nothing obliges it to happen.
\* ---------------------------------------------------------------------------
SpecAgentLive ==
    /\ SpecAgent
    /\ WF_vars(Start)
    /\ WF_vars(Observe \/ ObserveThrows)
    /\ WF_vars(\E env \in Env, delayOk \in BOOLEAN : Act(env, delayOk))

\* C23: an oracle call cannot block runFormAgent forever: whenever the loop
\* waits for decideAction, the wait ends and the run goes on to return a
\* result or to fail.
C23_OracleCallAlwaysEnds == (pc = "deciding") ~> (pc # "deciding")

\* ---------------------------------------------------------------------------
\* parseActionFromText and the tail of decideAction: the action read from the
\* content of an oracle response. A text is a sequence of lexemes with the
\* white space between them left out: "fence" three backquotes, "json" the
\* word after an opening fence, "{" "}" "," and "null" of JSON, the members
\* "type:fill_field", "type:done", "type:other" (a type no AgentAction has),
\* "type:" (an empty type), "target:x" and "meta:{" (the member meta up to the
\* opening brace of its value), and plain words.
\* ---------------------------------------------------------------------------
MaxChunks == 2

\* no action is ever read from the text
ParseActionFromTextNull(text) == [found |-> FALSE, via |-> "none", action |-> NoAction]

\* parseActionFromText(text); found FALSE for null, via the step of the chain
\* that produced the action
ParseActionFromText(text) ==
    LET TypeMembers == {"type:fill_field", "type:done", "type:other", "type:"}
        Members == TypeMembers \cup {"target:x", "meta:{"}
        TypeOf(member) == CASE member = "type:fill_field" -> "fill_field"
                            [] member = "type:done" -> "done"
                            [] member = "type:other" -> "other"
                            [] OTHER -> ""
        \* JSON.parse(s) followed by parsed.type inside the same try: the type
        \* of an object (the last type member, "" when it has none or an
        \* empty one), threw TRUE when s is not JSON or parses to null
        ParsedType(s0) ==
            LET inner == {i \in DOMAIN s0 : i > 1 /\ s0[i] = "}" /\ s0[i - 1] = "meta:{"}
                kept == {i \in DOMAIN s0 : i \notin inner}
                \* s0 with the braces that close a nested empty object taken out
                s == [n \in 1..Cardinality(kept) |->
                         s0[CHOOSE i \in kept : Cardinality({j \in kept : j <= i}) = n]]
                isObject == /\ \A i \in DOMAIN s0 : s0[i] = "meta:{" => (i + 1) \in inner
                            /\ Len(s) >= 2
                            /\ s[1] = "{"
                            /\ s[Len(s)] = "}"
                            /\ Len(s) > 2 => Len(s) % 2 = 1
                            /\ \A i \in 2..(Len(s) - 1) :
                                  IF i % 2 = 0 THEN s[i] \in Members ELSE s[i] = ","
                typed == {i \in DOMAIN s : s[i] \in TypeMembers}
                last == IF typed = {} THEN 0
                        ELSE CHOOSE i \in typed : \A j \in typed : j <= i
            IN IF ~isObject THEN [threw |-> TRUE, type |-> ""]
               ELSE [threw |-> FALSE, type |-> IF last = 0 THEN "" ELSE TypeOf(s[last])]
        FirstAfter(i, lexemes) == FirstIndex({k \in DOMAIN text : k > i /\ text[k] \in lexemes})
        \* text.match(pattern): matched FALSE for null, group the capture
        NoMatch == [matched |-> FALSE, group |-> << >>]
        fencedJson ==
            LET i == FirstIndex({i \in DOMAIN text :
                        /\ text[i] = "fence"
                        /\ i < Len(text)
                        /\ text[i + 1] = "json"
                        /\ FirstAfter(i + 1, {"fence"}) > 0})
            IN IF i = 0 THEN NoMatch
               ELSE [matched |-> TRUE,
                     group |-> SubSeq(text, i + 2, FirstAfter(i + 1, {"fence"}) - 1)]
        fenced ==
            LET i == FirstIndex({i \in DOMAIN text :
                        text[i] = "fence" /\ FirstAfter(i, {"fence"}) > 0})
            IN IF i = 0 THEN NoMatch
               ELSE [matched |-> TRUE,
                     group |-> SubSeq(text, i + 1, FirstAfter(i, {"fence"}) - 1)]
        raw ==
            LET End(i) == IF FirstAfter(i, TypeMembers) = 0 THEN 0
                          ELSE FirstAfter(FirstAfter(i, TypeMembers), {"}"})
                i == FirstIndex({i \in DOMAIN text : text[i] = "{" /\ End(i) > 0})
            IN IF i = 0 THEN NoMatch
               ELSE [matched |-> TRUE, group |-> SubSeq(text, i, End(i))]
        whole == [matched |-> TRUE, group |-> text]
        Typed(m) == m.matched /\ ~ParsedType(m.group).threw /\ ParsedType(m.group).type # ""
        Parsed(m, via) ==
            [found |-> TRUE, via |-> via,
             action |-> Action(ParsedType(m.group).type, NoText, NoText, via)]
        \* text.toLowerCase() and lowerText.includes(word)
        lowerText == [i \in DOMAIN text |-> IF text[i] = "DONE" THEN "done" ELSE text[i]]
        Has(word) == \E i \in DOMAIN lowerText :
                        \/ lowerText[i] = word
                        \/ lowerText[i] = "type:done" /\ word = "done"
        Guessed(type, target) ==
            [found |-> TRUE, via |-> "keywords",
             action |-> Action(type, target, NoText, "keywords")]
    IN IF Typed(fencedJson) THEN Parsed(fencedJson, "fenced json")
       ELSE IF Typed(fenced) THEN Parsed(fenced, "fenced")
       ELSE IF Typed(raw) THEN Parsed(raw, "raw")
       ELSE IF Typed(whole) THEN Parsed(whole, "whole")
       ELSE IF Has("click") /\ Has("add") THEN Guessed("click_button", TxtAdd)
       ELSE IF Has("click") /\ (Has("next") \/ Has("continue"))
       THEN Guessed("click_button", TxtNext)
       ELSE IF Has("complete") \/ Has("done") \/ Has("filled")
       THEN Guessed("done", NoText)
       ELSE IF Has("help") \/ Has("cannot") \/ Has("can't")
       THEN Guessed("need_help", NoText)
       ELSE [found |-> FALSE, via |-> "none", action |-> NoAction]

\* decideAction from `const action = parseActionFromText(content)` on
DecideAction(content) ==
    LET parsed == ParseActionFromText(content)
    IN IF parsed.found THEN parsed
       ELSE [found |-> TRUE, via |-> "none",
             action |-> Action("need_help", NoText, NoText, "none")]

\* the content of a response: up to MaxChunks pieces, each a fenced block, a
\* JSON value or words; chunks remembers the pieces
ParseInit ==
    /\ AgentIdle
    /\ FillIdle
    /\ appHistory = << >>
    /\ app = [pc |-> "idle"]
    /\ site = [url |-> "none"]
    /\ ui = [panel |-> "none"]
    /\ LET Objects == {<<"{", "type:fill_field", "}">>, <<"{", "target:x", "}">>,
                       <<"{", "type:", "}">>, <<"{", "type:other", "}">>,
                       <<"{", "target:x", ",", "type:fill_field", "}">>,
                       <<"{", "type:fill_field", ",", "meta:{", "}", "}">>}
           Chunks == {<<"fence", "json">> \o o \o <<"fence">> : o \in Objects}
                        \cup {<<"fence">> \o o \o <<"fence">> : o \in Objects}
                        \cup Objects
                        \cup {<<"{", "type:done">>, <<"null">>, <<"fence", "json", "please", "fence">>,
                              <<"click", "add">>, <<"click", "next">>, <<"DONE">>,
                              <<"help">>, <<"please">>}
           Flat[n \in 0..MaxChunks] ==
               IF n = 0 THEN {<< >>}
               ELSE Flat[n - 1] \cup {s \o <<c>> : s \in Flat[n - 1], c \in Chunks}
       IN \E chunks \in Flat[MaxChunks] :
             LET joined[n \in 0..Len(chunks)] ==
                     IF n = 0 THEN << >> ELSE joined[n - 1] \o chunks[n]
             IN lookup = [chunks |-> chunks, content |-> joined[Len(chunks)],
                          result |-> [found |-> FALSE]]

\* const action = parseActionFromText(content) ... return
ParseResponse ==
    /\ ~lookup.result.found
    /\ lookup' = [lookup EXCEPT !.result = DecideAction(lookup.content)]
    /\ UNCHANGED <<agentVars, fillVars, appHistory, app, site, ui>>

SpecParse == ParseInit /\ [][ParseResponse]_vars

MaxElements == 2

\* deduplicateFields(fields): every record has a selector, so the key
\* field.selector || field.label is the selector
DeduplicateFields(fields) ==
    LET keep == {i \in DOMAIN fields :
                    /\ fields[i].selector # NoText
                    /\ \A j \in DOMAIN fields :
                          j < i => fields[j].selector # fields[i].selector}
    IN [n \in 1..Cardinality(keep) |->
           fields[CHOOSE i \in keep : Cardinality({j \in keep : j <= i}) = n]]

\* the array fields of extractFormFields before deduplication: text inputs,
\* textareas, native selects, custom dropdowns, (radio groups: none on these
\* pages), checkboxes. css tells whether the global CSS of line 395 exists in
\* the process; without it extractSingleDropdown throws and returns null.
DiscoverFields(elements, css) ==
    LET Record(id, type, options) ==
            [selector |-> IF id = "" THEN NoText ELSE <<"#", id>>, type |-> type,
             options |-> options]
        Options(el) == IF el.listed THEN <<"o">> ELSE << >>
        \* the inputs of the document in order: an input, a combobox, or the
        \* input inside a container
        InputOf(el) ==
            IF el.kind \in {"input", "combobox"} /\ el.visible /\ el.id # ""
            THEN <<Record(el.id, "text", << >>)>>
            ELSE IF el.kind = "container" /\ el.visible /\ el.inner # ""
            THEN <<Record(el.inner, "text", << >>)>>
            ELSE << >>
        Plain(el, kind, type, options) ==
            IF el.kind = kind /\ el.visible /\ el.id # ""
            THEN <<Record(el.id, type, options)>> ELSE << >>
        \* extractSingleDropdown on a container or a combobox
        Dropdown(el) ==
            IF el.kind \notin {"container", "combobox"} \/ el.id = "" \/ ~css THEN << >>
            ELSE IF el.kind = "container" /\ el.inner # ""
            THEN <<Record(el.inner, "select", Options(el))>>
            ELSE <<Record(el.id, "select", Options(el))>>
        Step[n \in 0..Len(elements)] ==
            IF n = 0 THEN [k \in 1..6 |-> << >>]
            ELSE LET el == elements[n]
                 IN [k \in 1..6 |->
                        Step[n - 1][k] \o
                        CASE k = 1 -> InputOf(el)
                          [] k = 2 -> Plain(el, "textarea", "textarea", << >>)
                          [] k = 3 -> Plain(el, "select", "select", Options(el))
                          [] k = 4 -> Dropdown(el)
                          [] k = 5 -> << >>
                          [] k = 6 -> Plain(el, "checkbox", "checkbox", << >>)]
        found == Step[Len(elements)]
    IN found[1] \o found[2] \o found[3] \o found[4] \o found[5] \o found[6]

\* a page of up to MaxElements elements; nothing extracted yet
ExtractInit ==
    /\ AgentIdle
    /\ FillIdle
    /\ appHistory = << >>
    /\ app = [pc |-> "idle"]
    /\ ui = [panel |-> "none"]
    /\ lookup = [result |-> "none"]
    /\ LET Elements ==
               {[kind |-> k, id |-> i, visible |-> v, inner |-> "", listed |-> FALSE] :
                    k \in {"input", "textarea", "checkbox"}, i \in {"a", "b"}, v \in BOOLEAN}
               \cup {[kind |-> k, id |-> i, visible |-> TRUE, inner |-> "", listed |-> l] :
                    k \in {"select", "combobox"}, i \in {"a", "b"}, l \in BOOLEAN}
               \cup {[kind |-> "container", id |-> i, visible |-> TRUE, inner |-> n,
                      listed |-> l] : i \in {"", "c"}, n \in {"", "a"}, l \in BOOLEAN}
           Docs[n \in 0..MaxElements] ==
               IF n = 0 THEN {<< >>}
               ELSE Docs[n - 1] \cup {Append(p, e) : p \in Docs[n - 1], e \in Elements}
       IN \E elements \in Docs[MaxElements], css \in BOOLEAN :
             site = [elements |-> elements, css |-> css, extracted |-> FALSE,
                     discovered |-> << >>, fields |-> << >>]

\* extractFormFields(): steps 1 to 6 and uniqueFields
ExtractForm ==
    /\ ~site.extracted
    /\ LET fields == DiscoverFields(site.elements, site.css)
       IN site' = [site EXCEPT !.extracted = TRUE, !.discovered = fields,
                               !.fields = DeduplicateFields(fields)]
    /\ UNCHANGED <<agentVars, fillVars, appHistory, app, ui, lookup>>

SpecExtract == ExtractInit /\ [][ExtractForm]_vars

\* C25: the extracted form holds exactly one record for every selector that
\* was discovered, and when two discovered records share a selector and only
\* one of them has options, the record kept is the one with options.
C25_KeepsRecordWithOptions ==
    site.extracted =>
        /\ \A i, j \in DOMAIN site.fields :
              site.fields[i].selector = site.fields[j].selector => i = j
        /\ \A i \in DOMAIN site.discovered :
              \E k \in DOMAIN site.fields :
                 site.fields[k].selector = site.discovered[i].selector
        /\ \A i, j \in DOMAIN site.discovered :
              /\ site.discovered[i].selector = site.discovered[j].selector
              /\ site.discovered[i].options # << >>
              /\ site.discovered[j].options = << >>
              => \A k \in DOMAIN site.fields :
                    site.fields[k].selector = site.discovered[i].selector
                    => site.fields[k].options # << >>


\* ---------------------------------------------------------------------------
\* C26: isFieldFilled(selector) is true exactly when recordFill was called for
\* the selector since the last reset; an attempt or a recorded failure alone
\* does not make it true.
\* ---------------------------------------------------------------------------
C26_FilledExactlyWhenFilled ==
    \A s \in TrackerSelectors :
        IsFieldFilled(tracker, s) <=> s \in filledSelectors


\* ---------------------------------------------------------------------------
\* Submission: validateBeforeSubmit, submitApplication and submitWithRetry. The
\* page met by one attempt is [missing, shot, button, after]: missing tells
\* whether a visible required control is empty before the click, shot whether
\* the screenshot can be taken ("ok" or "throw"), button whether a visible
\* enabled submit button is found, after what the page shows after the click:
\* "success" (a success URL, phrase or indicator), "alert" (a visible error
\* element), "alertMissing" (an error element whose text holds 'Missing
\* required fields'), "required" (a required control is empty), "nothing".
\* An error text is a tuple of pieces.
\* ---------------------------------------------------------------------------
MaxRetries == 3

TxtMissing == "Missing required fields"

\* error.includes('Missing required fields')
IncludesMissing(error) == \E i \in DOMAIN error : error[i] = TxtMissing

\* a validation that never finds anything
ValidateBeforeSubmitLax(p) == [valid |-> TRUE, errors |-> << >>]

\* validateBeforeSubmit(): valid and the joined errors
ValidateBeforeSubmit(p) ==
    IF p.missing
    THEN [valid |-> FALSE, errors |-> <<TxtMissing, ": ", "name">>]
    ELSE [valid |-> TRUE, errors |-> << >>]

\* submitApplication() on page p: what it returns or that it raised, with the
\* screenshots it took and the clicks it made
SubmitApplication(p) ==
    LET Out(success, error, raised, shots, clicks) ==
            [success |-> success, error |-> error, raised |-> raised,
             shots |-> shots, clicks |-> clicks]
        validation == ValidateBeforeSubmit(p)
    IN IF ~validation.valid THEN Out(FALSE, validation.errors, FALSE, 0, 0)
       ELSE IF p.shot = "throw" THEN Out(FALSE, << >>, TRUE, 0, 0)
       ELSE IF ~p.button THEN Out(FALSE, <<"Could not find submit button">>, FALSE, 1, 0)
       ELSE CASE p.after = "success" -> Out(TRUE, << >>, FALSE, 2, 1)
              [] p.after = "alert" -> Out(FALSE, <<"Invalid email">>, FALSE, 2, 1)
              [] p.after = "alertMissing" ->
                    Out(FALSE, <<"Error: ", TxtMissing>>, FALSE, 2, 1)
              [] p.after = "required" ->
                    Out(FALSE, <<TxtMissing, ": ", "name">>, FALSE, 2, 1)
              [] OTHER ->
                    Out(FALSE, <<"Could not confirm submission status">>, FALSE, 2, 1)

\* a loop that retries after every failure
AfterAttemptNoBreak(res, tries, maxRetries) ==
    IF res.raised THEN "raised"
    ELSE IF res.success THEN "returned"
    ELSE IF tries < maxRetries THEN "loop" ELSE "returned"

\* where submitWithRetry is after an attempt gave res: it returned, the
\* exception left it, or it waits before the next attempt
AfterAttempt(res, tries, maxRetries) ==
    IF res.raised THEN "raised"
    ELSE IF res.success THEN "returned"
    ELSE IF IncludesMissing(res.error) THEN "returned"
    ELSE IF tries < maxRetries THEN "loop" ELSE "returned"

\* nothing has been submitted
SubmitInit ==
    /\ AgentIdle
    /\ FillIdle
    /\ appHistory = << >>
    /\ app = [pc |-> "idle"]
    /\ ui = [panel |-> "none"]
    /\ lookup = [result |-> "none"]
    /\ site = [pc |-> "idle", maxRetries |-> 0, attempts |-> 0, lastError |-> << >>,
               ret |-> [success |-> FALSE, error |-> << >>, attempts |-> 0],
               made |-> << >>]

\* submitWithRetry(maxRetries) up to its first attempt
CallSubmitWithRetry(maxRetries) ==
    /\ site.pc = "idle"
    /\ site' = [site EXCEPT !.pc = IF 0 < maxRetries THEN "loop" ELSE "returned",
                            !.maxRetries = maxRetries]
    /\ UNCHANGED <<agentVars, fillVars, appHistory, app, ui, lookup>>

\* one round of the loop on page p, up to the next wait or the return; made
\* keeps every call of submitApplication with its page
Attempt(p) ==
    /\ site.pc = "loop"
    /\ LET tries == site.attempts + 1
           res == SubmitApplication(p)
           next == AfterAttempt(res, tries, site.maxRetries)
           lastError == IF res.raised \/ res.success THEN site.lastError ELSE res.error
       IN site' = [site EXCEPT
                      !.pc = next,
                      !.attempts = tries,
                      !.lastError = lastError,
                      !.made = Append(@, [p |-> p, res |-> res]),
                      !.ret = IF next # "returned" THEN @
                              ELSE IF res.success
                              THEN [success |-> TRUE, error |-> << >>, attempts |-> tries]
                              ELSE [success |-> FALSE, error |-> lastError,
                                    attempts |-> tries]]
    /\ UNCHANGED <<agentVars, fillVars, appHistory, app, ui, lookup>>

SubmitNext ==
    \/ \E maxRetries \in 0..MaxRetries : CallSubmitWithRetry(maxRetries)
    \/ \E missing \in BOOLEAN, shot \in {"ok", "throw"}, button \in BOOLEAN,
          after \in {"success", "alert", "alertMissing", "required", "nothing"} :
          /\ missing => shot = "ok" /\ button /\ after = "nothing"
          /\ shot = "throw" \/ ~button => after = "nothing"
          /\ shot = "throw" => button
          /\ Attempt([missing |-> missing, shot |-> shot, button |-> button,
                      after |-> after])

SpecSubmit == SubmitInit /\ [][SubmitNext]_vars

\* C27: submitWithRetry(maxRetries) calls submitApplication at most maxRetries
\* times; no call follows a successful attempt or an attempt that failed with
\* a 'Missing required fields' error; it returns success exactly when its last
\* attempt succeeded, and attempts is the number of calls it made.
C27_RetryDiscipline ==
    /\ site.pc # "idle" => Len(site.made) <= site.maxRetries
    /\ \A i \in DOMAIN site.made :
          i < Len(site.made) =>
             /\ ~site.made[i].res.success
             /\ ~site.made[i].res.raised
             /\ ~IncludesMissing(site.made[i].res.error)
    /\ site.pc = "returned" =>
          /\ site.ret.attempts = Len(site.made)
          /\ site.ret.success =
                (site.made # << >> /\ site.made[Len(site.made)].res.success)

\* C27 witness: with three attempts allowed, the first failed with an error of
\* the page, the second with a missing required field, and the call returned
\* a failure after two attempts
C27_Witness ==
    /\ site.pc = "returned"
    /\ site.maxRetries = 3
    /\ Len(site.made) = 2
    /\ site.made[1].res.error = <<"Invalid email">>
    /\ IncludesMissing(site.made[2].res.error)
    /\ site.ret = [success |-> FALSE, error |-> site.made[2].res.error, attempts |-> 2]

\* C28: a call of submitApplication whose validation finds a missing required
\* field makes no click and takes no screenshot, and returns success false
\* with the validation error.
C28_NoClickWhenInvalid ==
    \A i \in DOMAIN site.made :
        site.made[i].p.missing =>
            /\ site.made[i].res.clicks = 0
            /\ site.made[i].res.shots = 0
            /\ ~site.made[i].res.raised
            /\ ~site.made[i].res.success
            /\ site.made[i].res.error = <<TxtMissing, ": ", "name">>

\* C28 witness: an attempt met a page with an empty required control and a
\* submit button that could have been clicked
C28_Witness ==
    \E i \in DOMAIN site.made :
        /\ site.made[i].p.missing
        /\ site.made[i].p.button
        /\ site.made[i].res.clicks = 0
        /\ ~site.made[i].res.success


C30_RemovedStaysRemoved == ui.removed => ui.panel # "open"

====
